---------------------------- MODULE Spec2Model ----------------------------
(***************************************************************************)
(* Model of the performance aggregator of psycopmlutils:                   *)
(*   src/src/psycopmlutils/model_performance/model_performance.py          *)
(*   src/src/psycopmlutils/model_comparison/utils.py                       *)
(*                                                                         *)
(* A prediction table is drawn in Init together with the call's options;   *)
(* the actions are the stages of ModelPerformance.performance_metrics_     *)
(* from_df.  Scores are exact rationals <<n, d>> in lowest terms, strings  *)
(* that the code splits on "-" are sequences of "-"-free tokens, and a     *)
(* pandas Series is a record [dtype, values].                              *)
(***************************************************************************)
EXTENDS Integers, Sequences, FiniteSets, TLC

\* Longest prediction table drawn in Init.
MaxRows == 3

(***************************************************************************)
(* Exact arithmetic on non-negative rationals.                             *)
(***************************************************************************)
RECURSIVE GCD(_, _)
GCD(a, b) == IF b = 0 THEN a ELSE GCD(b, a % b)

Rat(n, d) == IF n = 0 THEN <<0, 1>> ELSE <<n \div GCD(n, d), d \div GCD(n, d)>>

RAdd(x, y) == Rat(x[1] * y[2] + y[1] * x[2], x[2] * y[2])

RDivInt(x, k) == Rat(x[1], x[2] * k)

RLess(x, y) == x[1] * y[2] < y[1] * x[2]

RECURSIVE RSum(_)
RSum(s) == IF s = <<>> THEN <<0, 1>> ELSE RAdd(Head(s), RSum(Tail(s)))

\* numpy's mean of a one-dimensional array
RMean(s) == RDivInt(RSum(s), Len(s))

\* Division as sklearn's _prf_divide does it: 0 where the denominator is 0.
SafeDiv(n, d) == IF d = 0 THEN <<0, 1>> ELSE Rat(n, d)

(***************************************************************************)
(* Generic sequence helpers.                                               *)
(***************************************************************************)
Range(s) == {s[i] : i \in DOMAIN s}

RECURSIVE SumSeq(_)
SumSeq(s) == IF s = <<>> THEN 0 ELSE Head(s) + SumSeq(Tail(s))

\* numpy.unique / Python's sorted(set(.)): the elements of S ascending by the
\* ranking function rank (a function on S).
RECURSIVE SortSet(_, _)
SortSet(S, rank) ==
    IF S = {} THEN <<>>
    ELSE LET m == CHOOSE x \in S : \A y \in S : rank[x] <= rank[y]
         IN <<m>> \o SortSet(S \ {m}, rank)

\* First position of x in s (0 when absent).
IndexOf(s, x) ==
    IF \E i \in DOMAIN s : s[i] = x
    THEN CHOOSE i \in DOMAIN s : s[i] = x /\ \A j \in 1..(i - 1) : s[j] # x
    ELSE 0

(***************************************************************************)
(* Results of calls that may raise.                                        *)
(***************************************************************************)
Ok(v) == [err |-> "none", val |-> v]

Raise(e) == [err |-> e, val |-> <<>>]

(***************************************************************************)
(* Strings.  A string the code cuts at "-" is kept as the sequence of its  *)
(* "-"-free tokens: "id-f1-non-TD" is <<"id", "f1", "non", "TD">>.  NA is  *)
(* pandas' missing value (None/NaN), which no string equals.               *)
(***************************************************************************)
NA == <<"<NA>">>

\* The label strings of the model in Python's string order.
StrOrder == <<"ASD", "DEPR", "SCHZ", "TD", "non-TD">>

Digits == <<"0", "1", "2", "3", "4", "5", "6", "7", "8", "9">>

\* str(label) inside an f-string, cut at "-".
Tokens(dtype, v) ==
    IF dtype = "str"
    THEN (IF v = "non-TD" THEN <<"non", "TD">> ELSE <<v>>)
    ELSE <<Digits[v + 1]>>

\* "-".join of two token sequences
Join(a, b) == a \o b

\* A split that cuts at every "-", whatever n is.
StrSplitAll(toks, n) == [i \in 1..Len(toks) |-> <<toks[i]>>]

\* str.split("-", n): at most n cuts, the remainder kept whole as the last
\* part; the result has min(n, cuts available) + 1 parts.
StrSplit(toks, n) ==
    LET parts == IF Len(toks) - 1 < n THEN Len(toks) ELSE n + 1
    IN [i \in 1..parts |->
           IF i < parts THEN <<toks[i]>> ELSE SubSeq(toks, i, Len(toks))]

\* The order Python and numpy sort labels in.
LabelRank(dtype, S) ==
    [x \in S |-> IF dtype = "str" THEN IndexOf(StrOrder, x) ELSE x]

IsNumeric(dtype) == dtype \in {"int", "float"}

(***************************************************************************)
(* utils.py: per-id aggregation.  A prediction table is                    *)
(*   [index_name, index, columns, dtypes, data]                            *)
(* with one record per row in data.                                        *)
(***************************************************************************)
Column(df, col) == [i \in DOMAIN df.data |-> df.data[i][col]]

\* pandas' Series.unique(): the distinct values in order of first appearance
RECURSIVE Unique(_)
Unique(x) ==
    IF x = <<>> THEN <<>>
    ELSE LET r == Unique(SubSeq(x, 1, Len(x) - 1))
         IN IF x[Len(x)] \in Range(r) THEN r ELSE Append(r, x[Len(x)])

\* np.stack(x).mean(axis=0): the mean of scalars, or the element-wise mean of
\* equally long vectors.
mean_scores(dtype, x) ==
    IF dtype = "float" THEN RMean(x)
    ELSE [k \in DOMAIN x[1] |-> RMean([i \in DOMAIN x |-> x[i][k]])]

\* The label of the group's last row.
get_last_entry(x) == x[Len(x)]

get_first_entry(x) == Unique(x)[1]

\* A groupby that knows columns only, not index levels.
GroupKeysOfColumns(df, by) ==
    IF by \in Range(df.columns) THEN Ok(Column(df, by)) ELSE Raise("KeyError")

\* The keys df.groupby(by) groups on: a column, or the index level of that name.
GroupKeys(df, by) ==
    IF by \in Range(df.columns) THEN Ok(Column(df, by))
    ELSE IF by = df.index_name THEN Ok(df.index)
    ELSE Raise("KeyError")

\* Groups in order of first appearance (groupby with sort=False).
GroupOrderUnsorted(keys) == Unique(keys)

\* groupby sorts the group keys ascending (sort=True is the default).
GroupOrder(keys) == SortSet(Range(keys), [k \in Range(keys) |-> k])

\* The values of one group, in row order.
GroupValues(vals, keys, k) ==
    LET RECURSIVE Pick(_)
        Pick(i) == IF i > Len(keys) THEN <<>>
                   ELSE (IF keys[i] = k THEN <<vals[i]>> ELSE <<>>) \o Pick(i + 1)
    IN Pick(1)

\* An aggregation that leaves the labels in row order beside the sorted groups.
aggregate_predictions_labels_in_row_order(df, id_col, predictions_col, label_col) ==
    LET keys == GroupKeys(df, id_col)
    IN IF keys.err # "none" THEN keys
       ELSE LET order == GroupOrder(keys.val)
                first == Unique(keys.val)
                scores == Column(df, predictions_col)
                labels == Column(df, label_col)
            IN Ok([index_name |-> id_col,
                   index |-> order,
                   columns |-> <<predictions_col, label_col>>,
                   dtypes |-> [c \in {predictions_col, label_col} |-> df.dtypes[c]],
                   data |-> [g \in DOMAIN order |->
                       [c \in {predictions_col, label_col} |->
                           IF c = predictions_col
                           THEN mean_scores(df.dtypes[predictions_col],
                                            GroupValues(scores, keys.val, order[g]))
                           ELSE get_first_entry(
                                    GroupValues(labels, keys.val, first[g]))]]])

aggregate_predictions(df, id_col, predictions_col, label_col) ==
    LET keys == GroupKeys(df, id_col)
    IN IF keys.err # "none" THEN keys
       ELSE LET order == GroupOrder(keys.val)
                scores == Column(df, predictions_col)
                labels == Column(df, label_col)
            IN Ok([index_name |-> id_col,
                   index |-> order,
                   columns |-> <<predictions_col, label_col>>,
                   dtypes |-> [c \in {predictions_col, label_col} |-> df.dtypes[c]],
                   data |-> [g \in DOMAIN order |->
                       [c \in {predictions_col, label_col} |->
                           IF c = predictions_col
                           THEN mean_scores(df.dtypes[predictions_col],
                                            GroupValues(scores, keys.val, order[g]))
                           ELSE get_first_entry(
                                    GroupValues(labels, keys.val, order[g]))]]])

\* The highest index holding the largest entry.
np_argmax_last(v) ==
    (CHOOSE i \in DOMAIN v :
        /\ \A j \in DOMAIN v : ~RLess(v[i], v[j])
        /\ \A j \in (i + 1)..Len(v) : RLess(v[j], v[i])) - 1

(***************************************************************************)
(* utils.py and model_performance.py: score and label normalization.       *)
(***************************************************************************)
\* np.argmax: the 0-based position of the first maximum
np_argmax(v) ==
    (CHOOSE i \in DOMAIN v :
        /\ \A j \in DOMAIN v : ~RLess(v[i], v[j])
        /\ \A j \in 1..(i - 1) : RLess(v[j], v[i])) - 1

\* Rounding that takes every half up.
np_round_half_up(r) == (2 * r[1] + r[2]) \div (2 * r[2])

\* np.round: to the nearest integer, halves to the even one
np_round(r) ==
    LET fl == r[1] \div r[2]
        twice == 2 * (r[1] % r[2])
    IN IF twice < r[2] THEN fl
       ELSE IF twice > r[2] THEN fl + 1
       ELSE IF fl % 2 = 0 THEN fl ELSE fl + 1

\* [mapping[id] for id in idx]
idx_to_class(idx, mapping) ==
    IF \E i \in DOMAIN idx : idx[i] \notin DOMAIN mapping THEN Raise("KeyError")
    ELSE Ok([dtype |-> "str", values |-> [i \in DOMAIN idx |-> mapping[idx[i]]]])

\* The arg-max indices left as they are although a mapping is supplied.
predicted_labels_untranslated(df, prediction_col_name, id2label) ==
    IF df.dtypes[prediction_col_name] # "float"
    THEN Ok([dtype |-> "int",
             values |-> [i \in DOMAIN df.data |-> np_argmax(df.data[i][prediction_col_name])]])
    ELSE Ok([dtype |-> "float",
             values |-> [i \in DOMAIN df.data |->
                            np_round(df.data[i][prediction_col_name])]])

\* model_performance.py lines 244-252: the predicted class of every row
predicted_labels(df, prediction_col_name, id2label) ==
    IF df.dtypes[prediction_col_name] # "float"
    THEN LET argmax_indices == [i \in DOMAIN df.data |-> np_argmax(df.data[i][prediction_col_name])]
         IN IF DOMAIN id2label # {} THEN idx_to_class(argmax_indices, id2label)
            ELSE Ok([dtype |-> "int", values |-> argmax_indices])
    ELSE Ok([dtype |-> "float",
             values |-> [i \in DOMAIN df.data |->
                            np_round(df.data[i][prediction_col_name])]])

\* The first entry of a score sequence instead of the second.
scores_to_probs_of_first(scores) ==
    IF scores.dtype = "float" THEN scores.values
    ELSE [i \in DOMAIN scores.values |-> scores.values[i][1]]

scores_to_probs(scores) ==
    IF scores.dtype = "float" THEN scores.values
    ELSE [i \in DOMAIN scores.values |-> scores.values[i][2]]

\* {v: k for k, v in id2label.items()}; a later key wins for a repeated label
label2id_of(id2label) ==
    [l \in Range(id2label) |->
        CHOOSE k \in DOMAIN id2label :
            id2label[k] = l /\ \A j \in DOMAIN id2label : id2label[j] = l => j <= k]

\* A label the mapping lacks taken for index 0.
labels_to_int_or_zero(labels, id2label) ==
    IF labels.dtype = "int" THEN Ok(labels.values)
    ELSE IF DOMAIN id2label = {} THEN Raise("TypeError")
    ELSE Ok([i \in DOMAIN labels.values |->
                IF labels.values[i] \in Range(id2label)
                THEN label2id_of(id2label)[labels.values[i]] ELSE 0])

labels_to_int(labels, id2label) ==
    IF labels.dtype = "int" THEN Ok(labels.values)
    ELSE IF DOMAIN id2label = {} THEN Raise("TypeError")
    ELSE IF \E i \in DOMAIN labels.values :
                labels.values[i] \notin Range(id2label)
         THEN Raise("KeyError")
    ELSE Ok([i \in DOMAIN labels.values |-> label2id_of(id2label)[labels.values[i]]])

(***************************************************************************)
(* sklearn.metrics, as documented.  y_true and y_pred are Series; the      *)
(* classes of a score are the sorted union of the values of both.          *)
(***************************************************************************)
\* unique_labels refuses a mix of string and numeric labels.
TypeMix(y_true, y_pred) == IsNumeric(y_true.dtype) # IsNumeric(y_pred.dtype)

unique_labels(y_true, y_pred) ==
    LET S == Range(y_true.values) \cup Range(y_pred.values)
    IN SortSet(S, LabelRank(y_true.dtype, S))

\* The number of rows whose true label is in T and predicted label in Q.
Count(y_true, y_pred, T, Q) ==
    Cardinality({i \in DOMAIN y_true.values :
                    y_true.values[i] \in T /\ y_pred.values[i] \in Q})

AllLabels(y_true, y_pred) == Range(y_true.values) \cup Range(y_pred.values)

TruePos(y_true, y_pred, c) ==
    Count(y_true, y_pred, {c}, {c})

FalsePos(y_true, y_pred, c) ==
    Count(y_true, y_pred, AllLabels(y_true, y_pred) \ {c}, {c})

FalseNeg(y_true, y_pred, c) ==
    Count(y_true, y_pred, {c}, AllLabels(y_true, y_pred) \ {c})

accuracy_score(y_true, y_pred) ==
    Rat(Cardinality({i \in DOMAIN y_true.values : y_true.values[i] = y_pred.values[i]}),
        Len(y_true.values))

\* One class against the rest.
ClassPrecision(y_true, y_pred, c) ==
    SafeDiv(TruePos(y_true, y_pred, c),
            TruePos(y_true, y_pred, c) + FalsePos(y_true, y_pred, c))

ClassRecall(y_true, y_pred, c) ==
    SafeDiv(TruePos(y_true, y_pred, c),
            TruePos(y_true, y_pred, c) + FalseNeg(y_true, y_pred, c))

ClassF1(y_true, y_pred, c) ==
    SafeDiv(2 * TruePos(y_true, y_pred, c),
            2 * TruePos(y_true, y_pred, c) + FalsePos(y_true, y_pred, c)
                + FalseNeg(y_true, y_pred, c))

\* average=None: one value per class of unique_labels, in that order
precision_by_class(y_true, y_pred) ==
    LET L == unique_labels(y_true, y_pred)
    IN [i \in DOMAIN L |-> ClassPrecision(y_true, y_pred, L[i])]

recall_by_class(y_true, y_pred) ==
    LET L == unique_labels(y_true, y_pred)
    IN [i \in DOMAIN L |-> ClassRecall(y_true, y_pred, L[i])]

f1_by_class(y_true, y_pred) ==
    LET L == unique_labels(y_true, y_pred)
    IN [i \in DOMAIN L |-> ClassF1(y_true, y_pred, L[i])]

\* average="micro": from the counts summed over the classes
MicroTP(y_true, y_pred) ==
    LET L == unique_labels(y_true, y_pred)
    IN SumSeq([i \in DOMAIN L |-> TruePos(y_true, y_pred, L[i])])

\* The false positives of the classes of y_true alone.
MicroFP_of_true_classes(y_true, y_pred) ==
    LET L == SortSet(Range(y_true.values), LabelRank(y_true.dtype, Range(y_true.values)))
    IN SumSeq([i \in DOMAIN L |-> FalsePos(y_true, y_pred, L[i])])

MicroFP(y_true, y_pred) ==
    LET L == unique_labels(y_true, y_pred)
    IN SumSeq([i \in DOMAIN L |-> FalsePos(y_true, y_pred, L[i])])

MicroFN(y_true, y_pred) ==
    LET L == unique_labels(y_true, y_pred)
    IN SumSeq([i \in DOMAIN L |-> FalseNeg(y_true, y_pred, L[i])])

precision_score(y_true, y_pred, average) ==
    IF average = "macro" THEN RMean(precision_by_class(y_true, y_pred))
    ELSE SafeDiv(MicroTP(y_true, y_pred),
                 MicroTP(y_true, y_pred) + MicroFP(y_true, y_pred))

recall_score(y_true, y_pred, average) ==
    IF average = "macro" THEN RMean(recall_by_class(y_true, y_pred))
    ELSE SafeDiv(MicroTP(y_true, y_pred),
                 MicroTP(y_true, y_pred) + MicroFN(y_true, y_pred))

f1_score(y_true, y_pred, average) ==
    IF average = "macro" THEN RMean(f1_by_class(y_true, y_pred))
    ELSE SafeDiv(2 * MicroTP(y_true, y_pred),
                 2 * MicroTP(y_true, y_pred) + MicroFP(y_true, y_pred)
                     + MicroFN(y_true, y_pred))

\* C[i][j]: the rows of true class L[i] predicted as L[j]
confusion_matrix(y_true, y_pred) ==
    LET L == unique_labels(y_true, y_pred)
    IN [i \in DOMAIN L |-> [j \in DOMAIN L |->
           Count(y_true, y_pred, {L[i]}, {L[j]})]]

\* The distinct scores, highest first: roc_curve's thresholds.
RECURSIVE SortDesc(_)
SortDesc(S) ==
    IF S = {} THEN <<>>
    ELSE LET m == CHOOSE x \in S : \A y \in S : ~RLess(x, y)
         IN <<m>> \o SortDesc(S \ {m})

\* roc_auc_score for a binary target: the area under the ROC curve by the
\* trapezoidal rule over the thresholds; the larger label is the positive one.
\* A target with one class only (or more than two) is refused.
roc_auc_score(y_true, y_score) ==
    LET classes == Range(y_true)
    IN IF Cardinality(classes) # 2 THEN Raise("ValueError")
       ELSE
       LET pos == CHOOSE c \in classes : \A d \in classes : d <= c
           thr == SortDesc(Range(y_score))
           tps(k) == Cardinality({i \in DOMAIN y_true :
                         y_true[i] = pos /\ ~RLess(y_score[i], thr[k])})
           fps(k) == Cardinality({i \in DOMAIN y_true :
                         y_true[i] # pos /\ ~RLess(y_score[i], thr[k])})
           tp0(k) == IF k = 0 THEN 0 ELSE tps(k)
           fp0(k) == IF k = 0 THEN 0 ELSE fps(k)
           area2 == SumSeq([k \in DOMAIN thr |->
                        (fp0(k) - fp0(k - 1)) * (tp0(k) + tp0(k - 1))])
           nPos == Cardinality({i \in DOMAIN y_true : y_true[i] = pos})
           nNeg == Len(y_true) - nPos
       IN Ok(Rat(area2, 2 * nPos * nNeg))

(***************************************************************************)
(* pandas frames of results: [columns, index, data], a column name being   *)
(* a token sequence and data holding one function column -> cell per row.  *)
(***************************************************************************)
\* An insertion-ordered dict as a sequence of [k, v]; d[k] = v
DictSet(d, k, v) ==
    IF \E i \in DOMAIN d : d[i].k = k
    THEN [i \in DOMAIN d |-> IF d[i].k = k THEN [k |-> k, v |-> v] ELSE d[i]]
    ELSE Append(d, [k |-> k, v |-> v])

DictGet(d, k) == d[CHOOSE i \in DOMAIN d : d[i].k = k].v

\* pd.DataFrame.from_records([d]) and pd.DataFrame([d]): one row
FrameOfDict(d) ==
    [columns |-> [i \in DOMAIN d |-> d[i].k],
     index |-> <<0>>,
     data |-> <<[c \in {d[i].k : i \in DOMAIN d} |-> DictGet(d, c)]>>]

\* pd.melt of a one-row frame: one (variable, value) row per column
Melt(f) ==
    [columns |-> << <<"variable">>, <<"value">> >>,
     index |-> [i \in DOMAIN f.columns |-> i - 1],
     data |-> [i \in DOMAIN f.columns |->
                  [c \in {<<"variable">>, <<"value">>} |->
                      IF c = <<"variable">> THEN f.columns[i]
                      ELSE f.data[1][f.columns[i]]]]]

\* f[cols] = f[src].str.split("-", n, expand=True); the split must yield as
\* many columns as cols names.
AssignSplit(f, cols, src, n) ==
    LET parts == [i \in DOMAIN f.data |-> StrSplit(f.data[i][src], n)]
        width == CHOOSE w \in {Len(parts[i]) : i \in DOMAIN parts} :
                     \A i \in DOMAIN parts : Len(parts[i]) <= w
        added == SelectSeq(cols, LAMBDA c : c \notin Range(f.columns))
    IN IF width # Len(cols) THEN Raise("ValueError")
       ELSE Ok([columns |-> f.columns \o added,
                index |-> f.index,
                data |-> [i \in DOMAIN f.data |->
                    [c \in Range(f.columns) \cup Range(cols) |->
                        IF c \in Range(cols)
                        THEN (IF IndexOf(cols, c) <= Len(parts[i])
                              THEN parts[i][IndexOf(cols, c)] ELSE NA)
                        ELSE f.data[i][c]]]])

\* f[cols]
SelectColumns(f, cols) ==
    [columns |-> cols,
     index |-> f.index,
     data |-> [i \in DOMAIN f.data |-> [c \in Range(cols) |-> f.data[i][c]]]]

\* f[col] = v for every row; a new column goes last
AssignColumn(f, col, v) ==
    [columns |-> IF col \in Range(f.columns) THEN f.columns ELSE Append(f.columns, col),
     index |-> f.index,
     data |-> [i \in DOMAIN f.data |->
                  [c \in Range(f.columns) \cup {col} |->
                      IF c = col THEN v ELSE f.data[i][c]]]]

\* f.add_prefix(p + "-")
AddPrefix(f, p) ==
    [columns |-> [i \in DOMAIN f.columns |-> Join(<<p>>, f.columns[i])],
     index |-> f.index,
     data |-> [i \in DOMAIN f.data |->
                  [c \in {Join(<<p>>, f.columns[j]) : j \in DOMAIN f.columns} |->
                      f.data[i][Tail(c)]]]]

\* pd.concat([a, b]) along the rows: the union of the columns, a cell that a
\* frame lacks being NA; the indexes are kept.
ConcatRows(a, b) ==
    LET cols == a.columns \o SelectSeq(b.columns, LAMBDA c : c \notin Range(a.columns))
        Widen(f) == [i \in DOMAIN f.data |->
                        [c \in Range(cols) |->
                            IF c \in Range(f.columns) THEN f.data[i][c] ELSE NA]]
    IN [columns |-> cols, index |-> a.index \o b.index, data |-> Widen(a) \o Widen(b)]

\* a.join(b) and pd.concat([a, b], axis=1) of frames with the same index: the
\* columns side by side.  join refuses overlapping column names.
ConcatColumns(a, b) ==
    [columns |-> a.columns \o b.columns,
     index |-> a.index,
     data |-> [i \in DOMAIN a.data |->
                  [c \in Range(a.columns) \cup Range(b.columns) |->
                      IF c \in Range(a.columns) THEN a.data[i][c] ELSE b.data[i][c]]]]

FrameJoin(a, b) ==
    IF Range(a.columns) \cap Range(b.columns) # {} THEN Raise("ValueError")
    ELSE Ok(ConcatColumns(a, b))

\* f.reset_index(): the old index becomes the first column, "index"
ResetIndex(f) ==
    [columns |-> << <<"index">> >> \o f.columns,
     index |-> [i \in DOMAIN f.data |-> i - 1],
     data |-> [i \in DOMAIN f.data |->
                  [c \in Range(f.columns) \cup {<<"index">>} |->
                      IF c = <<"index">> THEN f.index[i] ELSE f.data[i][c]]]]

(***************************************************************************)
(* utils.py: the metadata columns.  A metadata frame is a one-row frame,   *)
(* its column names the one-token names of the input columns.              *)
(***************************************************************************)
\* Every column outside skip goes in with its first value.
RECURSIVE all_first_values(_, _, _, _)
all_first_values(df, columns, skip, metadata) ==
    IF columns = <<>> THEN metadata
    ELSE all_first_values(df, Tail(columns), skip,
             IF Head(columns) \in Range(skip) THEN metadata
             ELSE DictSet(metadata, <<Head(columns)>>, Column(df, Head(columns))[1]))

\* lines 110-117: every column outside skip that holds one unique value
RECURSIVE all_single_valued(_, _, _, _)
all_single_valued(df, columns, skip, metadata) ==
    IF columns = <<>> THEN metadata
    ELSE all_single_valued(df, Tail(columns), skip,
             IF Head(columns) \in Range(skip) THEN metadata
             ELSE IF Len(Unique(Column(df, Head(columns)))) = 1
             THEN DictSet(metadata, <<Head(columns)>>, Unique(Column(df, Head(columns)))[1])
             ELSE metadata)

\* The requested columns that the table has, each with its first value.
RECURSIVE requested_first_values(_, _, _)
requested_first_values(df, cols, metadata) ==
    IF cols = <<>> THEN Ok(metadata)
    ELSE requested_first_values(df, Tail(cols),
             IF Head(cols) \in Range(df.columns)
             THEN DictSet(metadata, <<Head(cols)>>, Column(df, Head(cols))[1])
             ELSE metadata)

\* lines 120-133: the requested columns, each present and single valued
RECURSIVE requested_columns(_, _, _)
requested_columns(df, cols, metadata) ==
    IF cols = <<>> THEN Ok(metadata)
    ELSE IF Head(cols) \notin Range(df.columns) THEN Raise("ValueError")
    ELSE IF Len(Unique(Column(df, Head(cols)))) > 1 THEN Raise("ValueError")
    ELSE requested_columns(df, Tail(cols),
             DictSet(metadata, <<Head(cols)>>, Unique(Column(df, Head(cols)))[1]))

\* line 134: pd.DataFrame.from_records([metadata])
metadata_frame(metadata) ==
    IF metadata.err # "none" THEN metadata ELSE Ok(FrameOfDict(metadata.val))

get_metadata_cols(df, cols, skip) ==
    IF cols[1] = "all"
    THEN metadata_frame(Ok(all_single_valued(df, df.columns, skip, <<>>)))
    ELSE metadata_frame(requested_columns(df, cols, <<>>))

\* The function performance_metrics_from_df calls for its metadata.
select_metadata_cols(df, metadata_cols, skip_cols) ==
    get_metadata_cols(df, metadata_cols, skip_cols)

\* lines 147-152: the metadata row repeated nrows times
meta_df_of_first_row(metadata, nrows) ==
    [columns |-> metadata.columns,
     index |-> [i \in 1..nrows |-> i - 1],
     data |-> [i \in 1..nrows |->
                  [c \in Range(metadata.columns) |->
                      IF i = 1 THEN metadata.data[1][c] ELSE NA]]]

meta_df_of(metadata, nrows) ==
    [columns |-> metadata.columns,
     index |-> [i \in 1..nrows |-> i - 1],
     data |-> [i \in 1..nrows |-> metadata.data[1]]]

\* df.reset_index(drop=True)
ResetIndexDrop(f) == [f EXCEPT !.index = [i \in DOMAIN f.data |-> i - 1]]

\* lines 137-154
add_metadata_cols(df, metadata) ==
    FrameJoin(ResetIndexDrop(df), meta_df_of(metadata, Len(df.data)))

\* model_performance.py lines 104-107, reached when the selection raised nothing
\* The metrics returned as they are when the metadata was refused.
add_metadata_if_selected(performance, metadata) ==
    IF metadata.err # "none" THEN Ok(performance)
    ELSE add_metadata_cols(performance, metadata.val)

add_selected_metadata(performance, metadata) ==
    IF metadata.err # "none" THEN metadata
    ELSE add_metadata_cols(performance, metadata.val)

(***************************************************************************)
(* model_performance.py: ModelPerformance.                                 *)
(* An absent option (None) is "" for a name and the empty function for     *)
(* id2label; both are falsy in the code's tests.                           *)
(***************************************************************************)
Key(score_type, class) == Join(<<score_type>>, class)

\* for i, group in enumerate(groups): the three per-class entries, taken at
\* position i of the by-class arrays
PerClassEntries(d, groups, dtype, f1, precision, recall) ==
    LET RECURSIVE Loop(_, _)
        Loop(acc, i) ==
            IF i > Len(groups) THEN acc
            ELSE Loop(DictSet(DictSet(DictSet(acc,
                          Key("f1", Tokens(dtype, groups[i])), f1[i]),
                          Key("precision", Tokens(dtype, groups[i])), precision[i]),
                          Key("recall", Tokens(dtype, groups[i])), recall[i]),
                      i + 1)
    IN Loop(d, 1)

\* The dict of metrics without its confusion matrix.
performance_dict_without_matrix(labels, predicted) ==
    LET groups == SortSet(Range(labels.values),
                          LabelRank(labels.dtype, Range(labels.values)))
        overall == <<
            [k |-> Key("acc", <<"overall">>), v |-> accuracy_score(labels, predicted)],
            [k |-> Key("f1_macro", <<"overall">>), v |-> f1_score(labels, predicted, "macro")],
            [k |-> Key("f1_micro", <<"overall">>), v |-> f1_score(labels, predicted, "micro")],
            [k |-> Key("precision_macro", <<"overall">>),
             v |-> precision_score(labels, predicted, "macro")],
            [k |-> Key("precision_micro", <<"overall">>),
             v |-> precision_score(labels, predicted, "micro")],
            [k |-> Key("recall_macro", <<"overall">>),
             v |-> recall_score(labels, predicted, "macro")],
            [k |-> Key("recall_micro", <<"overall">>),
             v |-> recall_score(labels, predicted, "micro")] >>
    IN PerClassEntries(overall, groups, labels.dtype,
                       f1_by_class(labels, predicted),
                       precision_by_class(labels, predicted),
                       recall_by_class(labels, predicted))

\* lines 348-384: the dict of metrics before it is prefixed and reshaped
performance_dict(labels, predicted) ==
    LET groups == SortSet(Range(labels.values),
                          LabelRank(labels.dtype, Range(labels.values)))
        overall == <<
            [k |-> Key("acc", <<"overall">>), v |-> accuracy_score(labels, predicted)],
            [k |-> Key("f1_macro", <<"overall">>), v |-> f1_score(labels, predicted, "macro")],
            [k |-> Key("f1_micro", <<"overall">>), v |-> f1_score(labels, predicted, "micro")],
            [k |-> Key("precision_macro", <<"overall">>),
             v |-> precision_score(labels, predicted, "macro")],
            [k |-> Key("precision_micro", <<"overall">>),
             v |-> precision_score(labels, predicted, "micro")],
            [k |-> Key("recall_macro", <<"overall">>),
             v |-> recall_score(labels, predicted, "macro")],
            [k |-> Key("recall_micro", <<"overall">>),
             v |-> recall_score(labels, predicted, "micro")],
            [k |-> Key("confusion_matrix", <<"overall">>),
             v |-> confusion_matrix(labels, predicted)] >>
    IN PerClassEntries(overall, groups, labels.dtype,
                       f1_by_class(labels, predicted),
                       precision_by_class(labels, predicted),
                       recall_by_class(labels, predicted))

\* {add_level_prefix + "-" + k: v for k, v in performance.items()}
PrefixKeys(d, add_level_prefix) ==
    IF add_level_prefix = "" THEN d
    ELSE [i \in DOMAIN d |-> [k |-> Join(<<add_level_prefix>>, d[i].k), v |-> d[i].v]]

\* lines 394-409: the long layout of a one-row frame of metrics
to_long(performance, add_level_prefix) ==
    LET molten == Melt(performance)
    IN IF add_level_prefix # ""
       THEN LET sp == AssignSplit(molten,
                          << <<"level">>, <<"score_type">>, <<"class">> >>,
                          <<"variable">>, 2)
            IN IF sp.err # "none" THEN sp
               ELSE Ok(SelectColumns(sp.val,
                    << <<"level">>, <<"class">>, <<"score_type">>, <<"value">> >>))
       ELSE LET sp == AssignSplit(molten, << <<"score_type">>, <<"class">> >>,
                          <<"variable">>, 1)
            IN IF sp.err # "none" THEN sp
               ELSE Ok(SelectColumns(sp.val,
                    << <<"class">>, <<"score_type">>, <<"value">> >>))

compute_metrics(labels, predicted, to_wide, add_level_prefix) ==
    IF TypeMix(labels, predicted) THEN Raise("ValueError")
    ELSE LET performance ==
                 FrameOfDict(PrefixKeys(performance_dict(labels, predicted),
                                        add_level_prefix))
         IN IF to_wide THEN Ok(performance)
            ELSE to_long(performance, add_level_prefix)

calculate_roc_auc(labels, predicted, to_wide, add_level_prefix) ==
    LET roc_auc == roc_auc_score(labels, predicted)
    IN IF roc_auc.err # "none" THEN roc_auc
       ELSE IF to_wide
       THEN Ok(FrameOfDict(PrefixKeys(
                <<[k |-> Key("auc", <<"overall">>), v |-> roc_auc.val]>>,
                add_level_prefix)))
       ELSE Ok(FrameOfDict(<<
                [k |-> <<"level">>,
                 v |-> IF add_level_prefix = "" THEN NA ELSE <<add_level_prefix>>],
                [k |-> <<"class">>, v |-> <<"overall">>],
                [k |-> <<"score_type">>, v |-> <<"auc">>],
                [k |-> <<"value">>, v |-> roc_auc.val] >>))

Series(df, col) == [dtype |-> df.dtypes[col], values |-> Column(df, col)]

\* A test that takes scalar scores only for binary.
is_float_scored(df, prediction_col_name) == df.dtypes[prediction_col_name] = "float"

\* lines 263-264: whether the first score is a float or has two entries
is_binary_shaped(df, prediction_col_name) ==
    \/ df.dtypes[prediction_col_name] = "float"
    \/ Len(df.data[1][prediction_col_name]) = 2

\* lines 265-278: the AUC frame merged into the metrics
with_roc_auc(df, metrics, prediction_col_name, label_col_name, to_wide, id2label, level_prefix) ==
    LET probs == scores_to_probs(Series(df, prediction_col_name))
        label_int == labels_to_int(Series(df, label_col_name), id2label)
    IN IF label_int.err # "none" THEN label_int
       ELSE LET auc_df == calculate_roc_auc(label_int.val, probs, to_wide, level_prefix)
            IN IF auc_df.err # "none" THEN auc_df
               ELSE IF to_wide THEN FrameJoin(metrics, auc_df.val)
               ELSE Ok(ResetIndex(ConcatRows(metrics, auc_df.val)))

\* What one evaluation leaves behind: the table it evaluated, the predicted
\* classes, compute_metrics' frame and the frame it returns.
Evaluation(err, df, predictions, metrics, auc, result) ==
    [err |-> err, df |-> df, predictions |-> predictions, metrics |-> metrics,
     auc |-> auc, result |-> result]

NoEvaluation == Evaluation("none", <<>>, <<>>, <<>>, FALSE, <<>>)

\* lines 274-280: the metrics with the AUC frame merged in
evaluated_with_auc(df, predictions, metrics, merged) ==
    Evaluation(merged.err, df, predictions, metrics, TRUE, merged.val)

\* lines 261-280: the AUC path, taken for binary-shaped scores only
evaluated_metrics(df, predictions, metrics, prediction_col_name, label_col_name, to_wide, id2label, level_prefix) ==
    IF metrics.err # "none"
    THEN Evaluation(metrics.err, df, predictions, <<>>, FALSE, <<>>)
    ELSE IF ~is_binary_shaped(df, prediction_col_name)
    THEN Evaluation("none", df, predictions, metrics.val, FALSE, metrics.val)
    ELSE evaluated_with_auc(df, predictions, metrics.val,
                            with_roc_auc(df, metrics.val, prediction_col_name,
                                         label_col_name, to_wide, id2label, level_prefix))

\* lines 254-259: compute_metrics on the labels and the predicted classes
evaluated_predictions(df, predictions, prediction_col_name, label_col_name, to_wide, id2label, level_prefix) ==
    IF predictions.err # "none"
    THEN Evaluation(predictions.err, df, <<>>, <<>>, FALSE, <<>>)
    ELSE evaluated_metrics(df, predictions.val,
                           compute_metrics(Series(df, label_col_name), predictions.val,
                                           to_wide, level_prefix),
                           prediction_col_name, label_col_name, to_wide, id2label,
                           level_prefix)

\* lines 244-252: the predicted classes of the table evaluated
evaluated_table(agg, prediction_col_name, label_col_name, to_wide, id2label, level_prefix) ==
    IF agg.err # "none" THEN Evaluation(agg.err, <<>>, <<>>, <<>>, FALSE, <<>>)
    ELSE evaluated_predictions(agg.val,
                               predicted_labels(agg.val, prediction_col_name, id2label),
                               prediction_col_name, label_col_name, to_wide, id2label,
                               level_prefix)

\* lines 232-242: the level prefix and the table, aggregated or as it is
evaluate_single_model(prediction_df, aggregate_by_id, prediction_col_name, label_col_name, id_col_name, to_wide, id2label) ==
    evaluated_table(IF aggregate_by_id
                    THEN aggregate_predictions(prediction_df, id_col_name,
                                               prediction_col_name, label_col_name)
                    ELSE Ok(prediction_df),
                    prediction_col_name, label_col_name, to_wide, id2label,
                    IF aggregate_by_id THEN "id" ELSE "")

(***************************************************************************)
(* The calls the model draws: a table of 1..MaxRows rows and the options   *)
(* of performance_metrics_from_df.  Every table has uniform columns, as a  *)
(* pandas column has one dtype.                                            *)
(***************************************************************************)
prediction_col_name == "scores"

label_col_name == "label"

NoMap == [i \in {} |-> ""]

\* index -> label mappings in the style of the tests' fixtures: the index
\* order is not the labels' sorted order
BinaryMap == [i \in 0..1 |-> IF i = 0 THEN "non-TD" ELSE "TD"]

MulticlassMap == [i \in 0..2 |-> IF i = 0 THEN "TD" ELSE IF i = 1 THEN "DEPR" ELSE "ASD"]

Tenths(n) == Rat(n, 10)

ScalarScores == {Tenths(2), Tenths(5), Tenths(6), Tenths(8)}

BinaryVectors == {<<Tenths(8), Tenths(2)>>, <<Tenths(5), Tenths(5)>>,
                  <<Tenths(4), Tenths(6)>>}

MulticlassVectors == {<<Tenths(8), Tenths(1), Tenths(1)>>,
                      <<Tenths(1), Tenths(1), Tenths(8)>>}

\* The label the rows of an id carry where the table keeps one label per id.
LabelOfId == <<"ASD", "DEPR", "TD">>

\* The kinds of table drawn: the dtypes of the score and label columns, the
\* id2label passed with it, whether an id column is supplied, and the rows
\* a table is made of.
Shapes ==
    << \* scalar scores, labels 0/1 (the tests' binary_float_df)
       [sdtype |-> "float", ldtype |-> "int", id2label |-> NoMap, with_id |-> FALSE,
        rows |-> [scores : ScalarScores, label : {0, 1}]],
       [sdtype |-> "float", ldtype |-> "int", id2label |-> NoMap, with_id |-> TRUE,
        rows |-> [id : {1, 2}, scores : {Tenths(2), Tenths(8)}, label : {0, 1}]],
       \* two-entry score vectors, integer labels, no mapping
       [sdtype |-> "object", ldtype |-> "int", id2label |-> NoMap, with_id |-> FALSE,
        rows |-> [scores : BinaryVectors, label : {0, 1}]],
       \* two-entry score vectors, string labels (the tests' binary_df)
       [sdtype |-> "object", ldtype |-> "str", id2label |-> BinaryMap, with_id |-> FALSE,
        rows |-> [scores : BinaryVectors, label : {"TD", "non-TD"}]],
       [sdtype |-> "object", ldtype |-> "str", id2label |-> BinaryMap, with_id |-> TRUE,
        rows |-> [id : {1, 2},
                  scores : {<<Tenths(8), Tenths(2)>>, <<Tenths(4), Tenths(6)>>},
                  label : {"TD", "non-TD"}]],
       \* three-entry score vectors (the tests' multiclass_df)
       [sdtype |-> "object", ldtype |-> "str", id2label |-> MulticlassMap,
        with_id |-> FALSE,
        rows |-> [scores : MulticlassVectors, label : {"ASD", "DEPR", "TD"}]],
       [sdtype |-> "object", ldtype |-> "str", id2label |-> MulticlassMap,
        with_id |-> TRUE,
        rows |-> {[id |-> i, scores |-> v, label |-> LabelOfId[i]] :
                      i \in 1..3, v \in MulticlassVectors}],
       \* two-entry score vectors, a label among them that the mapping lacks
       [sdtype |-> "object", ldtype |-> "str", id2label |-> BinaryMap, with_id |-> FALSE,
        rows |-> [scores : {<<Tenths(8), Tenths(2)>>, <<Tenths(4), Tenths(6)>>},
                  label : {"TD", "non-TD", "ASD"}]] >>

InputTable(shape, rows) ==
    [index_name |-> "",
     index |-> [i \in DOMAIN rows |-> i - 1],
     columns |-> IF shape.with_id THEN <<"id", "scores", "label">>
                 ELSE <<"scores", "label">>,
     dtypes |-> [c \in {"id", "scores", "label"} |->
                    IF c = "scores" THEN shape.sdtype
                    ELSE IF c = "label" THEN shape.ldtype ELSE "int"],
     data |-> rows]

\* The tests' four-class table and its mapping.
multiclass_score_mapping ==
    [i \in 0..3 |-> IF i = 0 THEN "ASD" ELSE IF i = 1 THEN "DEPR"
                    ELSE IF i = 2 THEN "TD" ELSE "SCHZ"]

Hundredths(n) == Rat(n, 100)

multiclass_df ==
    [index_name |-> "",
     index |-> [i \in 1..8 |-> i - 1],
     columns |-> <<"id", "scores", "label", "model_name">>,
     dtypes |-> [c \in {"id", "scores", "label", "model_name"} |->
                    IF c = "scores" THEN "object" ELSE IF c = "id" THEN "int" ELSE "str"],
     data |-> <<
        [id |-> 1, label |-> "ASD", model_name |-> "test",
         scores |-> <<Hundredths(80), Hundredths(10), Hundredths(5), Hundredths(5)>>],
        [id |-> 1, label |-> "ASD", model_name |-> "test",
         scores |-> <<Hundredths(40), Hundredths(70), Hundredths(10), Hundredths(10)>>],
        [id |-> 2, label |-> "DEPR", model_name |-> "test",
         scores |-> <<Hundredths(10), Hundredths(5), Hundredths(80), Hundredths(5)>>],
        [id |-> 2, label |-> "DEPR", model_name |-> "test",
         scores |-> <<Hundredths(10), Hundredths(70), Hundredths(10), Hundredths(10)>>],
        [id |-> 3, label |-> "TD", model_name |-> "test",
         scores |-> <<Hundredths(10), Hundredths(10), Hundredths(70), Hundredths(10)>>],
        [id |-> 3, label |-> "TD", model_name |-> "test",
         scores |-> <<Hundredths(20), Hundredths(50), Hundredths(20), Hundredths(10)>>],
        [id |-> 4, label |-> "SCHZ", model_name |-> "test",
         scores |-> <<Hundredths(10), Hundredths(10), Hundredths(20), Hundredths(60)>>],
        [id |-> 4, label |-> "SCHZ", model_name |-> "test",
         scores |-> <<Hundredths(10), Hundredths(20), Hundredths(10), Hundredths(60)>>] >>]

\* Tables with a metadata column: scalar scores, labels 0/1, ids and a
\* model_name that may differ between the rows.
MaxMetadataRows == 2

MetadataRows ==
    {[id |-> i, scores |-> Tenths(2 + 6 * l), label |-> l, model_name |-> m] :
        i \in {1, 2}, l \in {0, 1}, m \in {"test", "dev"}}

MetadataTable(rows) ==
    [index_name |-> "",
     index |-> [i \in DOMAIN rows |-> i - 1],
     columns |-> <<"id", "scores", "label", "model_name">>,
     dtypes |-> [c \in {"id", "scores", "label", "model_name"} |->
                    IF c = "scores" THEN "float" ELSE IF c = "model_name" THEN "str"
                    ELSE "int"],
     data |-> rows]

\* The metadata_col_names of a call: <<>> is None.
MetadataOptions ==
    {<<"all">>, <<"model_name">>, <<"split">>, <<"model_name", "id">>}

(***************************************************************************)
(* Files.  A path is [as, name]: as is "str" or "Path", name the file name *)
(* cut at its dots (<<"a", "jsonl">> is a.jsonl, <<"", "jsonl">> is        *)
(* .jsonl).  A file is [path, records], records being the table that       *)
(* pd.read_json(path, orient="records", lines=True) makes of it.           *)
(***************************************************************************)
\* Path(p)
Path(p) == [p EXCEPT !.as = "Path"]

\* PurePath.suffix without its dot: the part after the last dot of the name,
\* "" when the name has no dot, ends in a dot or only starts with one.
path_suffix(name) ==
    IF Len(name) < 2 THEN ""
    ELSE IF Len(name) = 2 /\ name[1] = "" THEN ""
    ELSE name[Len(name)]

\* A check that looks for the extension anywhere in the name.
supported_anywhere(p) == "jsonl" \in Range(p.name)

\* line 144, negated: the suffix is ".jsonl"
supported(p) == path_suffix(p.name) = "jsonl"

\* pd.read_json of the file at path p
read_json(disk, p) == disk[CHOOSE k \in DOMAIN disk : disk[k].path.name = p.name].records

\* pd.concat keeping the frames after the first only.
concat_tail(frames) ==
    IF Len(frames) = 1 THEN frames[1] ELSE frames[Len(frames)]

RECURSIVE concat_all(_)
\* pd.concat(frames) of one frame or more: the rows of each in turn
concat_all(frames) ==
    IF Len(frames) = 1 THEN frames[1]
    ELSE ConcatRows(concat_all(SubSeq(frames, 1, Len(frames) - 1)), frames[Len(frames)])

\* A concatenation that gives the empty table for no frame at all.
pd_concat_or_empty(frames) ==
    IF frames = <<>> THEN Ok([columns |-> <<>>, index |-> <<>>, data |-> <<>>])
    ELSE Ok(concat_all(frames))

\* line 204: pd.concat(dfs); no frame at all is "No objects to concatenate"
pd_concat(frames) ==
    IF frames = <<>> THEN Raise("ValueError") ELSE Ok(concat_all(frames))

\* The prediction table of a call that has read no file yet.
NoTable ==
    [index_name |-> "", index |-> <<>>, columns |-> <<>>, dtypes |-> <<>>, data |-> <<>>]

NoPath == [as |-> "Path", name |-> <<>>]

MaxFiles == 2

\* The names of the k-th file of a folder, the extension being ext.
Stems == <<"a", "b", "c", "d">>

FileNames ==
    {<<"a", "jsonl">>, <<"a", "csv">>, <<"a">>, <<"", "jsonl">>,
     <<"a", "jsonl", "gz">>, <<"a", "JSONL">>}

MetadataRow(i, l, m) == [id |-> i, scores |-> Tenths(2 + 6 * l), label |-> l, model_name |-> m]

\* What the files hold: two ids of one model, one id of another model, two
\* models in one file, and a single row.
FileTables ==
    {MetadataTable(<<MetadataRow(1, 0, "test"), MetadataRow(2, 1, "test")>>),
     MetadataTable(<<MetadataRow(1, 1, "dev"), MetadataRow(1, 0, "dev")>>),
     MetadataTable(<<MetadataRow(1, 0, "test"), MetadataRow(2, 1, "dev")>>),
     MetadataTable(<<MetadataRow(1, 1, "test")>>)}

File(name, records) == [path |-> [as |-> "Path", name |-> name], records |-> records]

\* The k-th match of folder.glob(pattern): the pattern may match files that
\* are not .jsonl files.
FolderFiles(k) ==
    {File(<<Stems[k], ext>>, t) : ext \in {"jsonl", "csv"}, t \in FileTables}

FolderMetadataOptions == {<<>>, <<"all">>, <<"model_name">>}

(***************************************************************************)
(* Binary64 arithmetic.  A non-negative double is the set of the exponents *)
(* of its binary digits: 0.5 is {-1}, 1.5 is {0, -1}.  The exponent range  *)
(* of the format is not reached by sums and means of scores.               *)
(***************************************************************************)
TopBit(S) == CHOOSE k \in S : \A j \in S : j <= k

\* A carry enters digit k of A + B when a lower digit is set in both and
\* every digit between is set in one of them.
Carry(A, B, k) ==
    \E j \in A \cap B : j < k /\ \A i \in (j + 1)..(k - 1) : i \in A \cup B

\* The exact sum of two digit sets.
ExactSum(A, B) ==
    {k \in {j + c : j \in A \cup B, c \in {0, 1}} :
        ((k \in A) # (k \in B)) # Carry(A, B, k)}

\* Round to nearest, ties to even, at 53 significant digits; sticky tells that
\* digits below those of S were dropped before.
Round53(S, sticky) ==
    IF S = {} THEN {}
    ELSE IF (TopBit(S) - 53) \in S
              /\ (sticky \/ (TopBit(S) - 52) \in S \/ \E k \in S : k < TopBit(S) - 53)
         THEN ExactSum({k \in S : k > TopBit(S) - 53}, {TopBit(S) - 52})
         ELSE {k \in S : k > TopBit(S) - 53}

\* x + y of two doubles.
float64_add(x, y) == Round53(ExactSum(x, y), FALSE)

\* The four digits of S from k down, as a number below 16.
Nibble(S, k) ==
    (IF k \in S THEN 8 ELSE 0) + (IF k - 1 \in S THEN 4 ELSE 0)
        + (IF k - 2 \in S THEN 2 ELSE 0) + (IF k - 3 \in S THEN 1 ELSE 0)

\* S / n by long division, four digits a step from digit k down to digit low:
\* the quotient's digits added to q, and the remainder.
RECURSIVE LongDivision(_, _, _, _, _, _)
LongDivision(S, n, k, low, r, q) ==
    IF k < low THEN [q |-> q, r |-> r]
    ELSE CHOOSE d \in {LongDivision(S, n, k - 4, low, r2 % n, q \cup {k - 3 + c : c \in {b \in 0..3 : ((r2 \div n) \div (2 ^ b)) % 2 = 1}}) :
                           r2 \in {16 * r + Nibble(S, k)}} : TRUE

\* x / n of a double and a count.
float64_div(x, n) ==
    IF x = {} THEN {}
    ELSE Round53(LongDivision(x, n, TopBit(x), TopBit(x) - 60, 0, {}).q,
                 LongDivision(x, n, TopBit(x), TopBit(x) - 60, 0, {}).r # 0)

\* The double of 14 hexadecimal digits h times 2^e, as float.hex() writes it.
FromHex(h, e) ==
    UNION {{e + 4 * (Len(h) - i) + b : b \in {c \in 0..3 : (h[i] \div (2 ^ c)) % 2 = 1}} :
               i \in DOMAIN h}

\* The doubles nearest to the decimal scores 0.2, 0.3, 0.4, 0.5 and 0.8.
Float64Scores ==
    { FromHex(<<1, 9, 9, 9, 9, 9, 9, 9, 9, 9, 9, 9, 9, 10>>, -55),
      FromHex(<<1, 3, 3, 3, 3, 3, 3, 3, 3, 3, 3, 3, 3, 3>>, -54),
      FromHex(<<1, 9, 9, 9, 9, 9, 9, 9, 9, 9, 9, 9, 9, 10>>, -54),
      {-1},
      FromHex(<<1, 9, 9, 9, 9, 9, 9, 9, 9, 9, 9, 9, 9, 10>>, -53) }

\* np.add.reduce over fewer than eight doubles: one after the other.
RECURSIVE float64_sum(_)
float64_sum(x) ==
    IF Len(x) = 1 THEN x[1]
    ELSE float64_add(float64_sum(SubSeq(x, 1, Len(x) - 1)), x[Len(x)])

\* np.stack(x).mean(axis=0) of scalar scores: the sum divided by the count.
float64_mean(x) == float64_div(float64_sum(x), Len(x))

\* np.round of a double below 2: to the nearest integer, a half to the even one.
float64_round(x) ==
    IF x = {} \/ TopBit(x) < -1 \/ x = {-1} THEN 0
    ELSE IF TopBit(x) = -1 THEN 1
    ELSE IF -1 \in x THEN 2 ELSE 1

VARIABLES
    prediction_df,            \* the caller's table
    id_col_name,              \* "" when no id column is supplied
    metadata_col_names,       \* <<>> when no metadata is requested
    id2label,
    to_wide,
    pc,                       \* where performance_metrics_from_df stands
    row_eval,                 \* what the row-level evaluation computed
    id_eval,                  \* what the id-level evaluation computed
    performance_description,  \* the local of that name
    outcome,                  \* "running", "returned" or the error raised
    reaggregated,             \* aggregate_predictions applied to its own result
    entry,                    \* the entry point called: "df", "file" or "folder"
    files,                    \* the file at the path, or the matches of the glob in order
    jsonl_path,               \* the path of the file call
    dfs,                      \* the tables of the files done, in order
    files_read                \* the paths pd.read_json was called with

\* One id group of scalar scores evaluated at id level in binary64.
VARIABLES
    group_scores,             \* the scores of the group's rows as doubles, in row order
    group_label,              \* the label the group's rows share
    id_score,                 \* the group's row of the aggregated table: its mean score
    id_prediction,            \* np.round of it
    id_acc,                   \* acc-overall of the per-id table
    fpc                       \* where the id-level evaluation of the group stands

float_vars == <<group_scores, group_label, id_score, id_prediction, id_acc, fpc>>

\* check_feature_combinations_return_correct_dfs.
VARIABLES
    predictor_dict_list,      \* the argument of that name
    loader_fns_dict,          \* data_loaders.get_all(): the frame each loader returns
    unique_subset_dicts,      \* the local of that name
    failure_dicts,            \* the local of that name
    loaded,                   \* the names of the loaders called, in order
    dict_index,               \* the position of the loop in unique_subset_dicts
    check_outcome,            \* "running", "returned" or the error raised
    cpc                       \* where the function stands

check_vars == <<predictor_dict_list, loader_fns_dict, unique_subset_dicts, failure_dicts,
                loaded, dict_index, check_outcome, cpc>>

\* generate_synth_txt_data.
VARIABLES
    predictors,               \* the keys of the argument of that name, in order
    n_samples,
    na_prob,                  \* None, or the probability in hundredths
    na_ignore_cols,           \* the argument of that name: None, or a list of columns
    synth_df,                 \* the local df
    mask,                     \* the local of that name
    synth_outcome,            \* "running", "returned" or the error raised
    spc                       \* where the function stands

synth_vars == <<predictors, n_samples, na_prob, na_ignore_cols, synth_df, mask,
                synth_outcome, spc>>

other_vars == <<float_vars, check_vars, synth_vars>>

vars == <<prediction_df, id_col_name, metadata_col_names, id2label, to_wide, pc,
          row_eval, id_eval, performance_description, outcome, reaggregated,
          entry, files, jsonl_path, dfs, files_read, other_vars>>

\* No group is being evaluated.
NoGroup ==
    /\ group_scores = <<>>
    /\ group_label = 0
    /\ id_score = {}
    /\ id_prediction = 0
    /\ id_acc = <<>>
    /\ fpc = "idle"

\* No combination is being checked.
NoCheck ==
    /\ predictor_dict_list = <<>>
    /\ loader_fns_dict = <<>>
    /\ unique_subset_dicts = <<>>
    /\ failure_dicts = <<>>
    /\ loaded = <<>>
    /\ dict_index = 0
    /\ check_outcome = "running"
    /\ cpc = "idle"

\* No data is being generated.
NoSynth ==
    /\ predictors = <<>>
    /\ n_samples = 0
    /\ na_prob = 0
    /\ na_ignore_cols = [is_none |-> TRUE, cols |-> {}]
    /\ synth_df = <<>>
    /\ mask = <<>>
    /\ synth_outcome = "running"
    /\ spc = "idle"

Init ==
    /\ \/ /\ \/ \E sh \in DOMAIN Shapes, n \in 1..MaxRows :
                    \E rows \in [1..n -> Shapes[sh].rows] :
                        /\ prediction_df = InputTable(Shapes[sh], rows)
                        /\ id_col_name = IF Shapes[sh].with_id THEN "id" ELSE ""
                        /\ id2label = Shapes[sh].id2label
                        /\ metadata_col_names = <<>>
             \/ /\ prediction_df = multiclass_df
                /\ id_col_name \in {"", "id"}
                /\ id2label = multiclass_score_mapping
                /\ metadata_col_names \in {<<>>, <<"model_name">>}
             \/ \E n \in 1..MaxMetadataRows :
                    \E rows \in [1..n -> MetadataRows] :
                        /\ prediction_df = MetadataTable(rows)
                        /\ id_col_name \in {"", "id"}
                        /\ id2label = NoMap
                        /\ metadata_col_names \in MetadataOptions
          /\ entry = "df"
          /\ files = <<>>
          /\ jsonl_path = NoPath
          /\ pc = "row_level"
       \/ /\ entry = "file"
          /\ \E name \in FileNames, t \in FileTables, as \in {"str", "Path"} :
                 /\ files = <<File(name, t)>>
                 /\ jsonl_path = [as |-> as, name |-> name]
          /\ prediction_df = NoTable
          /\ id_col_name \in {"", "id"}
          /\ id2label = NoMap
          /\ metadata_col_names \in MetadataOptions \cup {<<>>}
          /\ pc = "from_file"
       \/ /\ entry = "folder"
          /\ \E n \in 0..MaxFiles :
                 files \in {fs \in [1..n -> UNION {FolderFiles(k) : k \in 1..n}] :
                               \A k \in 1..n : fs[k] \in FolderFiles(k)}
          /\ jsonl_path = NoPath
          /\ prediction_df = NoTable
          /\ id_col_name = "id"
          /\ id2label = NoMap
          /\ metadata_col_names \in FolderMetadataOptions
          /\ pc = "from_folder"
    /\ to_wide \in BOOLEAN
    /\ row_eval = NoEvaluation
    /\ id_eval = NoEvaluation
    /\ performance_description = <<>>
    /\ outcome = "running"
    /\ reaggregated = <<>>
    /\ dfs = <<>>
    /\ files_read = <<>>
    /\ NoGroup
    /\ NoCheck
    /\ NoSynth

\* The aggregated table handed back to the caller in place of its own.
rebound_for_caller(df, evaluation) ==
    IF evaluation.df = <<>> THEN df ELSE evaluation.df

\* line 235: _evaluate_single_model assigns the aggregated table to its own
\* parameter, a local name; the caller's table df is what it was.
rebound_locally(df, evaluation) == df

\* lines 61-71: the row-level metrics
EvaluateRowLevel ==
    /\ pc = "row_level"
    /\ \E e \in {evaluate_single_model(prediction_df, FALSE, prediction_col_name,
                                       label_col_name, id_col_name, to_wide, id2label)} :
          /\ row_eval' = e
          /\ prediction_df' = rebound_locally(prediction_df, e)
          /\ IF e.err # "none"
             THEN /\ pc' = "done"
                  /\ outcome' = e.err
                  /\ performance_description' = <<>>
             ELSE /\ pc' = IF id_col_name # "" THEN "id_level" ELSE "finish"
                  /\ outcome' = outcome
                  /\ performance_description' = e.result
    /\ UNCHANGED other_vars
    /\ UNCHANGED <<entry, files, jsonl_path, dfs, files_read>>
    /\ UNCHANGED <<id_col_name, metadata_col_names, id2label, to_wide,
                   id_eval, reaggregated>>

\* The row-level half left as it is.
tag_nothing(performance, wide) == performance

\* lines 75-78: the row-level half tagged with its level
tag_row_level(performance, wide) ==
    IF wide THEN AddPrefix(performance, "row")
    ELSE AssignColumn(performance, <<"level">>, <<"row">>)

\* pd.concat along the rows whatever the layout.
concat_levels_by_rows(row_level, by_id, wide) == ConcatRows(row_level, by_id)

\* lines 91-94: pd.concat along concat_axis
concat_levels(row_level, by_id, wide) ==
    IF wide THEN ConcatColumns(row_level, by_id) ELSE ConcatRows(row_level, by_id)

\* lines 73-94: the id-level metrics, joined to the row-level ones
EvaluateIdLevel ==
    /\ pc = "id_level"
    /\ \E e \in {evaluate_single_model(prediction_df, TRUE, prediction_col_name,
                                       label_col_name, id_col_name, to_wide, id2label)} :
          /\ id_eval' = e
          /\ prediction_df' = rebound_locally(prediction_df, e)
          /\ IF e.err # "none"
             THEN /\ pc' = "done"
                  /\ outcome' = e.err
                  /\ performance_description' = <<>>
             ELSE /\ pc' = "finish"
                  /\ outcome' = outcome
                  /\ performance_description'
                         = concat_levels(tag_row_level(performance_description, to_wide),
                                         e.result, to_wide)
    /\ UNCHANGED other_vars
    /\ UNCHANGED <<entry, files, jsonl_path, dfs, files_read>>
    /\ UNCHANGED <<id_col_name, metadata_col_names, id2label, to_wide,
                   row_eval, reaggregated>>

\* lines 96-107: the metadata of the input table joined to the metrics
with_metadata(performance, df, metadata_cols) ==
    IF metadata_cols = <<>> THEN Ok(performance)
    ELSE add_selected_metadata(performance,
             select_metadata_cols(df, metadata_cols,
                                  <<prediction_col_name, label_col_name>>))

\* lines 96-109: the metadata, when requested, and the return
Return ==
    /\ pc = "finish"
    /\ pc' = "done"
    /\ \E r \in {with_metadata(performance_description, prediction_df,
                                metadata_col_names)} :
          IF r.err # "none"
          THEN outcome' = r.err /\ performance_description' = <<>>
          ELSE outcome' = "returned" /\ performance_description' = r.val
    /\ UNCHANGED other_vars
    /\ UNCHANGED <<entry, files, jsonl_path, dfs, files_read>>
    /\ UNCHANGED <<prediction_df, id_col_name, metadata_col_names, id2label, to_wide,
                   row_eval, id_eval, reaggregated>>

\* The caller aggregates the per-id table once more by the same id column.
ReAggregate ==
    /\ pc = "done"
    /\ id_eval.df # <<>>
    /\ reaggregated = <<>>
    /\ reaggregated' = aggregate_predictions(id_eval.df, id_col_name,
                                             prediction_col_name, label_col_name)
    /\ UNCHANGED other_vars
    /\ UNCHANGED <<entry, files, jsonl_path, dfs, files_read>>
    /\ UNCHANGED <<prediction_df, id_col_name, metadata_col_names, id2label, to_wide,
                   pc, row_eval, id_eval, performance_description, outcome>>

\* lines 141-148: the path made a Path, its suffix checked, the file read
FromFile ==
    /\ pc = "from_file"
    /\ jsonl_path' = Path(jsonl_path)
    /\ IF ~supported(Path(jsonl_path))
       THEN /\ pc' = "rejected"
            /\ outcome' = "ValueError"
            /\ UNCHANGED <<prediction_df, files_read>>
       ELSE /\ pc' = "row_level"
            /\ outcome' = outcome
            /\ prediction_df' = read_json(files, Path(jsonl_path))
            /\ files_read' = Append(files_read, Path(jsonl_path))
    /\ UNCHANGED other_vars
    /\ UNCHANGED <<entry, files, dfs, id_col_name, metadata_col_names, id2label,
                   to_wide, row_eval, id_eval, performance_description, reaggregated>>

\* lines 192-203: the file call for the next match of the glob
NextMatch ==
    /\ pc = "from_folder"
    /\ Len(dfs) < Len(files)
    /\ pc' = "from_file"
    /\ jsonl_path' = files[Len(dfs) + 1].path
    /\ row_eval' = NoEvaluation
    /\ id_eval' = NoEvaluation
    /\ performance_description' = <<>>
    /\ reaggregated' = <<>>
    /\ outcome' = "running"
    /\ UNCHANGED other_vars
    /\ UNCHANGED <<entry, files, dfs, files_read, prediction_df, id_col_name,
                   metadata_col_names, id2label, to_wide>>

\* lines 192-203: the table of a file call joins the list; an error of a file
\* call leaves the comprehension and the folder call
FileDone ==
    /\ entry = "folder"
    /\ pc \in {"done", "rejected"}
    /\ IF outcome = "returned"
       THEN /\ pc' = "from_folder"
            /\ dfs' = Append(dfs, performance_description)
       ELSE /\ pc' = "folder_done"
            /\ dfs' = dfs
    /\ UNCHANGED other_vars
    /\ UNCHANGED <<entry, files, jsonl_path, files_read, prediction_df, id_col_name,
                   metadata_col_names, id2label, to_wide, row_eval, id_eval,
                   performance_description, outcome, reaggregated>>

\* line 204: the tables of all the matches concatenated
ConcatFolder ==
    /\ pc = "from_folder"
    /\ Len(dfs) = Len(files)
    /\ pc' = "folder_done"
    /\ \E r \in {pd_concat(dfs)} :
          IF r.err # "none"
          THEN outcome' = r.err /\ performance_description' = <<>>
          ELSE outcome' = "returned" /\ performance_description' = r.val
    /\ UNCHANGED other_vars
    /\ UNCHANGED <<entry, files, jsonl_path, dfs, files_read, prediction_df,
                   id_col_name, metadata_col_names, id2label, to_wide, row_eval,
                   id_eval, reaggregated>>

Next ==
    \/ EvaluateRowLevel \/ EvaluateIdLevel \/ Return \/ ReAggregate
    \/ FromFile \/ NextMatch \/ FileDone \/ ConcatFolder

Spec == Init /\ [][Next]_vars


(***************************************************************************)
(* The id-level evaluation of one id group of scalar scores, the scores    *)
(* being the doubles they are: aggregate_predictions takes their mean,     *)
(* _evaluate_single_model rounds it and compute_metrics scores the         *)
(* prediction against the group's label.                                   *)
(***************************************************************************)
call_vars == <<prediction_df, id_col_name, metadata_col_names, id2label, to_wide, pc,
               row_eval, id_eval, performance_description, outcome, reaggregated,
               entry, files, jsonl_path, dfs, files_read>>

\* No call of an entry point is under way.
NoCall ==
    /\ prediction_df = NoTable
    /\ id_col_name = "id"
    /\ metadata_col_names = <<>>
    /\ id2label = NoMap
    /\ to_wide = FALSE
    /\ pc = "idle"
    /\ row_eval = NoEvaluation
    /\ id_eval = NoEvaluation
    /\ performance_description = <<>>
    /\ outcome = "running"
    /\ reaggregated = <<>>
    /\ entry = "group"
    /\ files = <<>>
    /\ jsonl_path = NoPath
    /\ dfs = <<>>
    /\ files_read = <<>>

FloatInit ==
    /\ \E n \in 1..MaxRows : group_scores \in [1..n -> Float64Scores]
    /\ group_label \in {0, 1}
    /\ id_score = {}
    /\ id_prediction = 0
    /\ id_acc = <<>>
    /\ fpc = "aggregate"
    /\ NoCall
    /\ NoCheck
    /\ NoSynth

\* utils.py 64-73: the group's row of the aggregated table
AggregateGroup ==
    /\ fpc = "aggregate"
    /\ id_score' = float64_mean(group_scores)
    /\ fpc' = "predict"
    /\ UNCHANGED <<group_scores, group_label, id_prediction, id_acc>>
    /\ UNCHANGED <<call_vars, check_vars, synth_vars>>

\* model_performance.py 252: the predicted class of a scalar score
RoundScore ==
    /\ fpc = "predict"
    /\ id_prediction' = float64_round(id_score)
    /\ fpc' = "metrics"
    /\ UNCHANGED <<group_scores, group_label, id_score, id_acc>>
    /\ UNCHANGED <<call_vars, check_vars, synth_vars>>

\* model_performance.py 254-259, 351: acc-overall of the one-row per-id table
ScoreGroup ==
    /\ fpc = "metrics"
    /\ id_acc' = accuracy_score([dtype |-> "int", values |-> <<group_label>>],
                                [dtype |-> "float", values |-> <<id_prediction>>])
    /\ fpc' = "done"
    /\ UNCHANGED <<group_scores, group_label, id_score, id_prediction>>
    /\ UNCHANGED <<call_vars, check_vars, synth_vars>>

FloatNext == AggregateGroup \/ RoundScore \/ ScoreGroup

FloatSpec == FloatInit /\ [][FloatNext]_vars


(***************************************************************************)
(* check_feature_combination_formatting.py.  A frame is the set of its     *)
(* columns and its rows; proportions are in hundredths.                    *)
(***************************************************************************)
\* lines 11-12: the defaults of the two column lists
required_columns == <<"dw_ek_borger", "timestamp", "value">>

subset_duplicates_columns == <<"dw_ek_borger", "timestamp">>

\* A missing value of a cell, and the proportion 0 / 0; no number is above or
\* below it.
NaN == -1

\* allowed_nan_value_prop: None
None == -2

MaxFrameRows == 2

MaxDicts == 2

\* The rows a loader may return.
FrameRows ==
    { [dw_ek_borger |-> 1, timestamp |-> 1, value |-> 5],
      [dw_ek_borger |-> 1, timestamp |-> 2, value |-> 5],
      [dw_ek_borger |-> 1, timestamp |-> 1, value |-> NaN],
      [dw_ek_borger |-> NaN, timestamp |-> 2, value |-> 5] }

\* The frames a loader may return: with every required column, or without
\* value, or without timestamp.
LoadedFrames ==
    { [columns |-> c, rows |-> r] :
          c \in {Range(required_columns), Range(required_columns) \ {"value"},
                 Range(required_columns) \ {"timestamp"}},
          r \in UNION {[1..n -> FrameRows] : n \in 0..MaxFrameRows} }

\* The frames of the second loader: a frame that conforms, one with a
\* duplicate and one without the value column.
SecondFrames ==
    {f \in LoadedFrames :
        \/ f.columns = Range(required_columns)
             /\ f.rows \in {<<[dw_ek_borger |-> 1, timestamp |-> 1, value |-> 5]>>,
                            <<[dw_ek_borger |-> 1, timestamp |-> 1, value |-> 5],
                              [dw_ek_borger |-> 1, timestamp |-> 1, value |-> 5]>>}
        \/ f.columns = Range(required_columns) \ {"value"}
             /\ f.rows = <<[dw_ek_borger |-> 1, timestamp |-> 1, value |-> 5]>>}

\* The dictionaries of predictor_dict_list, on the two keys the function reads;
\* source x is a frame of the caller's, not a loader of the catalogue.
PredictorDicts ==
    [predictor_df : {"a", "b", "x"}, allowed_nan_value_prop : {None, 0, 50}]

\* line 75: round(df[col].isna().sum() / df.shape[0], 2)
na_prop(df, col) ==
    IF Len(df.rows) = 0 THEN NaN
    ELSE np_round(Rat(100 * Cardinality({k \in DOMAIN df.rows : df.rows[k][col] = NaN}),
                      Len(df.rows)))

\* line 93: df.duplicated(subset=subset_duplicates_columns).any()
duplicated_any(df) ==
    \E j, k \in DOMAIN df.rows :
        j < k /\ \A c \in Range(subset_duplicates_columns) : df.rows[j][c] = df.rows[k][c]

\* lines 81-85: the allowed proportion as the function overwrites it
overwritten_allowed(allowed) == IF allowed # None THEN 0 ELSE allowed

\* lines 64-90: the loop over required_columns from position k on, with the
\* failures collected before
RECURSIVE check_columns(_, _, _, _)
check_columns(df, allowed, k, source_failures) ==
    IF k > Len(required_columns) THEN Ok(source_failures)
    ELSE IF required_columns[k] \notin df.columns
    THEN (IF required_columns[k] = "timestamp"
          THEN Raise("AttributeError")    \* line 71: col is a str and has no dtype
          ELSE Raise("KeyError"))         \* line 75: df[col]
    ELSE IF ~(na_prop(df, required_columns[k]) > 0)
    THEN check_columns(df, allowed, k + 1, source_failures)
    ELSE IF required_columns[k] # "value"
    THEN check_columns(df, allowed, k + 1,
                       Append(source_failures, <<"NaN", required_columns[k]>>))
    ELSE IF overwritten_allowed(allowed) = None
    THEN Raise("TypeError")               \* line 87: na_prop > None
    ELSE IF na_prop(df, required_columns[k]) > overwritten_allowed(allowed)
    THEN check_columns(df, allowed, k + 1,
                       Append(source_failures, <<"NaN", required_columns[k]>>))
    ELSE check_columns(df, allowed, k + 1, source_failures)

\* lines 55-94: the failures of one loaded frame, or the error raised
check_source(df, allowed) ==
    IF check_columns(df, allowed, 1, <<>>).err # "none"
    THEN check_columns(df, allowed, 1, <<>>)
    ELSE Ok((IF Len(df.rows) = 0 THEN <<<<"No rows returned", "">>>> ELSE <<>>)
            \o check_columns(df, allowed, 1, <<>>).val
            \o (IF duplicated_any(df) THEN <<<<"Duplicates found", "">>>> ELSE <<>>))

CheckInit ==
    /\ \E n \in 1..MaxDicts : predictor_dict_list \in [1..n -> PredictorDicts]
    /\ \E fa \in LoadedFrames, fb \in SecondFrames :
           loader_fns_dict = [name \in {"a", "b"} |-> IF name = "a" THEN fa ELSE fb]
    /\ unique_subset_dicts = <<>>
    /\ failure_dicts = <<>>
    /\ loaded = <<>>
    /\ dict_index = 0
    /\ check_outcome = "running"
    /\ cpc = "start"
    /\ NoCall
    /\ NoGroup
    /\ NoSynth

\* lines 26-36: the dictionaries unique on the two keys, in order
FindUnique ==
    /\ cpc = "start"
    /\ unique_subset_dicts' = Unique(predictor_dict_list)
    /\ dict_index' = 1
    /\ cpc' = "loop"
    /\ UNCHANGED <<predictor_dict_list, loader_fns_dict, failure_dicts, loaded,
                   check_outcome>>
    /\ UNCHANGED <<call_vars, float_vars, synth_vars>>

\* lines 47-53: no loader of that name; the loop continues
SkipSource ==
    /\ cpc = "loop"
    /\ dict_index <= Len(unique_subset_dicts)
    /\ unique_subset_dicts[dict_index].predictor_df \notin DOMAIN loader_fns_dict
    /\ dict_index' = dict_index + 1
    /\ UNCHANGED <<predictor_dict_list, loader_fns_dict, unique_subset_dicts,
                   failure_dicts, loaded, check_outcome, cpc>>
    /\ UNCHANGED <<call_vars, float_vars, synth_vars>>

\* lines 47-101: one pass of the loop for a loader of the catalogue
CheckSource ==
    /\ cpc = "loop"
    /\ dict_index <= Len(unique_subset_dicts)
    /\ unique_subset_dicts[dict_index].predictor_df \in DOMAIN loader_fns_dict
    /\ loaded' = Append(loaded, unique_subset_dicts[dict_index].predictor_df)
    /\ \E r \in {check_source(
                     loader_fns_dict[unique_subset_dicts[dict_index].predictor_df],
                     unique_subset_dicts[dict_index].allowed_nan_value_prop)} :
          IF r.err # "none"
          THEN /\ check_outcome' = r.err
               /\ cpc' = "done"
               /\ UNCHANGED <<dict_index, failure_dicts>>
          ELSE /\ failure_dicts' =
                      IF r.val # <<>>
                      THEN Append(failure_dicts,
                               [predictor_df |-> unique_subset_dicts[dict_index].predictor_df,
                                source_failures |-> r.val])
                      ELSE failure_dicts
               /\ dict_index' = dict_index + 1
               /\ UNCHANGED <<check_outcome, cpc>>
    /\ UNCHANGED <<predictor_dict_list, loader_fns_dict, unique_subset_dicts>>
    /\ UNCHANGED <<call_vars, float_vars, synth_vars>>

\* lines 103-108: after the loop
Finish ==
    /\ cpc = "loop"
    /\ dict_index > Len(unique_subset_dicts)
    /\ check_outcome' = IF failure_dicts = <<>> THEN "returned" ELSE "ValueError"
    /\ cpc' = "done"
    /\ UNCHANGED <<predictor_dict_list, loader_fns_dict, unique_subset_dicts,
                   failure_dicts, loaded, dict_index>>
    /\ UNCHANGED <<call_vars, float_vars, synth_vars>>

CheckNext == FindUnique \/ SkipSource \/ CheckSource \/ Finish

CheckSpec == CheckInit /\ [][CheckNext]_vars


(***************************************************************************)
(* synth_txt_data_generator.py.  A frame is its columns in order and the   *)
(* cells of each; a generated cell is a number, a replaced one is NaN.     *)
(***************************************************************************)
MaxColumns == 2

MaxSamples == 2

\* The keys of the column specifications of the script (lines 59-63).
ColumnNames == <<"citizen_ids", "timestamp", "text">>

\* The lists of at most MaxColumns distinct keys.
PredictorKeys ==
    {c \in UNION {[1..n -> Range(ColumnNames)] : n \in 0..MaxColumns} :
        \A j, k \in DOMAIN c : j # k => c[j] # c[k]}

\* na_ignore_cols: None, the default, or a list of column names.
IgnoreOptions ==
    {[is_none |-> TRUE, cols |-> {}]}
        \cup {[is_none |-> FALSE, cols |-> S] : S \in SUBSET Range(ColumnNames)}

\* na_prob: None, 0, the default 0.1 and 1.
NaProbs == {None, 0, 10, 100}

\* The value generated for row k of a column.
generated(col, k) == 10 * IndexOf(ColumnNames, col) + k

\* lines 38-43: a frame of n rows with a generated column for each key
generate_data_columns(keys, n) ==
    [columns |-> keys,
     data |-> [col \in Range(keys) |-> [k \in 1..n |-> generated(col, k)]]]

\* line 47: the masks np.random.choice can draw: True is drawn with
\* probability p and False with 1 - p, each cell on its own.
drawn_masks(df, p) ==
    {m \in [Range(df.columns) -> [1..n_samples -> BOOLEAN]] :
        \A col \in Range(df.columns) : \A k \in 1..n_samples :
            /\ m[col][k] => p > 0
            /\ ~m[col][k] => p < 100}

\* line 48: df.mask(mask)
df_mask(df, m) ==
    [df EXCEPT !.data = [col \in Range(df.columns) |->
                            [k \in DOMAIN df.data[col] |->
                                IF m[col][k] THEN NaN ELSE df.data[col][k]]]]

\* lines 51-53: the loop over df.columns; col not in None is a TypeError
replace_columns(df, masked, ignore) ==
    IF ignore.is_none /\ df.columns # <<>> THEN Raise("TypeError")
    ELSE Ok([df EXCEPT !.data = [col \in Range(df.columns) |->
                                    IF col \notin ignore.cols THEN masked.data[col]
                                    ELSE df.data[col]]])

SynthInit ==
    /\ predictors \in PredictorKeys
    /\ n_samples \in 0..MaxSamples
    /\ na_prob \in NaProbs
    /\ na_ignore_cols \in IgnoreOptions
    /\ synth_df = <<>>
    /\ mask = <<>>
    /\ synth_outcome = "running"
    /\ spc = "generate"
    /\ NoCall
    /\ NoGroup
    /\ NoCheck

\* lines 38-43
GenerateColumns ==
    /\ spc = "generate"
    /\ synth_df' = generate_data_columns(predictors, n_samples)
    /\ spc' = "na_prob"
    /\ UNCHANGED <<predictors, n_samples, na_prob, na_ignore_cols, mask, synth_outcome>>
    /\ UNCHANGED <<call_vars, float_vars, check_vars>>

\* lines 46 and 55: na_prob is None or 0, and df is returned as generated
ReturnGenerated ==
    /\ spc = "na_prob"
    /\ na_prob \in {None, 0}
    /\ synth_outcome' = "returned"
    /\ spc' = "done"
    /\ UNCHANGED <<predictors, n_samples, na_prob, na_ignore_cols, synth_df, mask>>
    /\ UNCHANGED <<call_vars, float_vars, check_vars>>

\* lines 46-47: the random mask
DrawMask ==
    /\ spc = "na_prob"
    /\ na_prob \notin {None, 0}
    /\ mask' \in drawn_masks(synth_df, na_prob)
    /\ spc' = "replace"
    /\ UNCHANGED <<predictors, n_samples, na_prob, na_ignore_cols, synth_df, synth_outcome>>
    /\ UNCHANGED <<call_vars, float_vars, check_vars>>

\* lines 48-55: the masked columns taken over, and the return
ReplaceByNA ==
    /\ spc = "replace"
    /\ \E r \in {replace_columns(synth_df, df_mask(synth_df, mask), na_ignore_cols)} :
          IF r.err # "none"
          THEN synth_outcome' = r.err /\ synth_df' = synth_df
          ELSE synth_outcome' = "returned" /\ synth_df' = r.val
    /\ spc' = "done"
    /\ UNCHANGED <<predictors, n_samples, na_prob, na_ignore_cols, mask>>
    /\ UNCHANGED <<call_vars, float_vars, check_vars>>

SynthNext == GenerateColumns \/ ReturnGenerated \/ DrawMask \/ ReplaceByNA

SynthSpec == SynthInit /\ [][SynthNext]_vars

(***************************************************************************)
(* performance_metrics_from_df as one function of its arguments: the       *)
(* composition of the steps above, for statements that relate two calls.   *)
(***************************************************************************)
metrics_of_levels(df, id_col, map, wide) ==
    LET row_level == evaluate_single_model(df, FALSE, prediction_col_name,
                                           label_col_name, id_col, wide, map)
    IN IF row_level.err # "none" THEN Raise(row_level.err)
       ELSE IF id_col = "" THEN Ok(row_level.result)
       ELSE LET by_id == evaluate_single_model(df, TRUE, prediction_col_name,
                                               label_col_name, id_col, wide, map)
            IN IF by_id.err # "none" THEN Raise(by_id.err)
               ELSE Ok(concat_levels(tag_row_level(row_level.result, wide),
                                     by_id.result, wide))

metrics_with_metadata(metrics, df, metadata_cols) ==
    IF metrics.err # "none" THEN metrics
    ELSE with_metadata(metrics.val, df, metadata_cols)

performance_metrics_from_df(df, id_col, metadata_cols, map, wide) ==
    metrics_with_metadata(metrics_of_levels(df, id_col, map, wide), df, metadata_cols)

(***************************************************************************)
(* Reading a result table.  An entry is named as its wide column is:       *)
(* [level-]score_type-class, in tokens.                                    *)
(***************************************************************************)
HasColumn(f, c) == c \in Range(f.columns)

\* The columns that carry metadata are named as input columns are; the
\* table without them.
IsMetadataColumn(c) == \E k \in Range(prediction_df.columns) : c = <<k>>

MetricsOnly(f) ==
    [f EXCEPT !.columns = SelectSeq(f.columns, LAMBDA c : ~IsMetadataColumn(c))]

LevelOf(f, i) ==
    IF HasColumn(f, <<"level">>) /\ f.data[i][<<"level">>] # NA
    THEN f.data[i][<<"level">>] ELSE <<>>

LongName(f, i) ==
    LevelOf(f, i) \o f.data[i][<<"score_type">>] \o f.data[i][<<"class">>]

LongRows(f, name) == {i \in DOMAIN f.data : LongName(f, i) = name}

WideColumns(f, name) == {j \in DOMAIN f.columns : f.columns[j] = name}

\* How many entries of that name the table holds, and their values.
EntryCount(f, wide, name) ==
    IF wide THEN Cardinality(WideColumns(f, name)) ELSE Cardinality(LongRows(f, name))

EntryValues(f, wide, name) ==
    IF wide THEN {f.data[1][f.columns[j]] : j \in WideColumns(f, name)}
    ELSE {f.data[i][<<"value">>] : i \in LongRows(f, name)}

EntryName(level, score_type, class) ==
    (IF level = "" THEN <<>> ELSE <<level>>) \o <<score_type>> \o class

\* The tag of the row-level half of the returned table.
RowTag == IF id_col_name # "" THEN "row" ELSE ""

Returned == pc = "done" /\ outcome = "returned"

NRows == Len(prediction_df.data)

ScoreOf(df, i) == df.data[i][prediction_col_name]

LabelOf(df, i) == df.data[i][label_col_name]

ScalarScored(df) == df.dtypes[prediction_col_name] = "float"

\* Scalar scores, or score sequences of length two.
BinaryInput(df) == ScalarScored(df) \/ Len(ScoreOf(df, 1)) = 2

(***************************************************************************)
(* C1                                                                      *)
(***************************************************************************)
\* The class a row's score stands for, read off the score itself: 1 for a
\* scalar above one half and 0 otherwise; for a sequence the lowest index
\* holding the largest entry, as a label where the labels are strings.
DirectClass(df, i) ==
    IF ScalarScored(df)
    THEN (IF 2 * ScoreOf(df, i)[1] > ScoreOf(df, i)[2] THEN 1 ELSE 0)
    ELSE LET v == ScoreOf(df, i)
             top == CHOOSE k \in DOMAIN v :
                        /\ \A j \in DOMAIN v : v[j][1] * v[k][2] <= v[k][1] * v[j][2]
                        /\ \A j \in DOMAIN v : j < k => v[j][1] * v[k][2] < v[k][1] * v[j][2]
         IN IF df.dtypes[label_col_name] = "str" THEN id2label[top - 1] ELSE top - 1

DirectHits(df) ==
    Cardinality({i \in DOMAIN df.data : DirectClass(df, i) = LabelOf(df, i)})

\* C1: for a binary input (scalar scores or two-entry score sequences) whose
\* call returns, the row-level acc-overall entry is the number of rows whose
\* predicted class equals the label divided by the number of rows, in the long
\* and in the wide layout.
C1_AccuracyIsFractionOfHits ==
    (Returned /\ BinaryInput(prediction_df)) =>
        /\ EntryCount(performance_description, to_wide,
                      EntryName(RowTag, "acc", <<"overall">>)) = 1
        /\ EntryValues(performance_description, to_wide,
                       EntryName(RowTag, "acc", <<"overall">>))
               = {Rat(DirectHits(prediction_df), NRows)}

\* The tests' binary_float_df, scores [0.6, 0.2, 0.8] with labels [1, 0, 0],
\* returns an accuracy of 2/3.
C1_Witness ==
    /\ Returned
    /\ ~to_wide
    /\ prediction_df.data = << [scores |-> Tenths(6), label |-> 1],
                               [scores |-> Tenths(2), label |-> 0],
                               [scores |-> Tenths(8), label |-> 0] >>
    /\ EntryValues(performance_description, to_wide,
                   EntryName(RowTag, "acc", <<"overall">>)) = {<<2, 3>>}

(***************************************************************************)
(* C2                                                                      *)
(***************************************************************************)
\* Every long row has exactly one wide column of its name, holding its value,
\* and every wide column is the name of exactly one long row.
SameInformation(long, wide) ==
    /\ Len(wide.data) = 1
    /\ \A i \in DOMAIN long.data :
           /\ Cardinality(WideColumns(wide, LongName(long, i))) = 1
           /\ wide.data[1][LongName(long, i)] = long.data[i][<<"value">>]
    /\ \A j \in DOMAIN wide.columns :
           Cardinality(LongRows(long, wide.columns[j])) = 1

\* C2: the call with the other value of to_wide, on the same table and
\* options, ends the same way, and when both return, the wide columns and the
\* long rows correspond one to one with equal values.
C2_WideAndLongAgree ==
    pc = "done" =>
        LET other == performance_metrics_from_df(prediction_df, id_col_name,
                                                 metadata_col_names, id2label,
                                                 ~to_wide)
        IN IF outcome # "returned" THEN other.err = outcome
           ELSE /\ other.err = "none"
                /\ IF to_wide
                   THEN SameInformation(MetricsOnly(other.val),
                                        MetricsOnly(performance_description))
                   ELSE SameInformation(MetricsOnly(performance_description),
                                        MetricsOnly(other.val))

\* A returned table with both levels, an AUC entry and a class whose name
\* holds a "-".
C2_Witness ==
    /\ Returned
    /\ id_col_name # ""
    /\ EntryCount(performance_description, to_wide,
                  EntryName("id", "auc", <<"overall">>)) = 1
    /\ EntryCount(performance_description, to_wide,
                  EntryName("row", "f1", <<"non", "TD">>)) = 1

(***************************************************************************)
(* C3                                                                      *)
(***************************************************************************)
\* What compute_metrics reported for class c at one level against the score
\* of c as the positive class against the rest.
PerClassAsStated(e, level) ==
    LET labels == Series(e.df, label_col_name)
    IN \A c \in Range(labels.values) :
           /\ EntryValues(e.metrics, to_wide,
                          EntryName(level, "f1", Tokens(labels.dtype, c)))
                  = {ClassF1(labels, e.predictions, c)}
           /\ EntryValues(e.metrics, to_wide,
                          EntryName(level, "precision", Tokens(labels.dtype, c)))
                  = {ClassPrecision(labels, e.predictions, c)}
           /\ EntryValues(e.metrics, to_wide,
                          EntryName(level, "recall", Tokens(labels.dtype, c)))
                  = {ClassRecall(labels, e.predictions, c)}

\* C3: in every call that returns, at each level compute_metrics' f1-c, precision-c and recall-c
\* of every class c of the true labels are the F1, precision and recall of c
\* against all other classes, also when a predicted class is no true class.
C3_PerClassScoresOfTheClass ==
    Returned =>
        /\ PerClassAsStated(row_eval, "")
        /\ id_col_name # "" => PerClassAsStated(id_eval, "id")

(***************************************************************************)
(* C4                                                                      *)
(***************************************************************************)
IdOf(df, i) == df.data[i]["id"]

RowsOfId(df, k) == {i \in DOMAIN df.data : IdOf(df, i) = k}

FirstRowOfId(df, k) ==
    CHOOSE i \in RowsOfId(df, k) : \A j \in RowsOfId(df, k) : i <= j

\* m times the number of rows in S is the sum of x over S.
IsMeanOver(m, S, x) ==
    Rat(m[1] * Cardinality(S), m[2])
        = RSum([i \in DOMAIN x |-> IF i \in S THEN x[i] ELSE <<0, 1>>])

IsScoreMean(df, m, S) ==
    IF ScalarScored(df) THEN IsMeanOver(m, S, Column(df, prediction_col_name))
    ELSE /\ DOMAIN m = DOMAIN ScoreOf(df, 1)
         /\ \A k \in DOMAIN m :
                IsMeanOver(m[k], S, [i \in DOMAIN df.data |-> ScoreOf(df, i)[k]])

\* C4: the per-id table has one row per distinct id of the input, in
\* ascending id order; a row's score is the mean (element-wise for sequences)
\* of the scores of the input rows of its id, and its label is the label of
\* the first of those rows.
C4_OneRowPerIdMeanFirstLabel ==
    id_eval.df # <<>> =>
        LET agg == id_eval.df
            ids == {IdOf(prediction_df, i) : i \in DOMAIN prediction_df.data}
        IN /\ Len(agg.data) = Cardinality(ids)
           /\ Range(agg.index) = ids
           /\ \A g, h \in DOMAIN agg.index : g < h => agg.index[g] < agg.index[h]
           /\ \A g \in DOMAIN agg.data :
                  /\ IsScoreMean(prediction_df, agg.data[g][prediction_col_name],
                                 RowsOfId(prediction_df, agg.index[g]))
                  /\ agg.data[g][label_col_name]
                         = LabelOf(prediction_df,
                                   FirstRowOfId(prediction_df, agg.index[g]))

\* Rows of id 2 around a row of id 1, with different scores and labels.
C4_Witness ==
    /\ id_eval.df # <<>>
    /\ NRows = 3
    /\ IdOf(prediction_df, 1) = 2 /\ IdOf(prediction_df, 2) = 1
    /\ IdOf(prediction_df, 3) = 2
    /\ ScoreOf(prediction_df, 1) # ScoreOf(prediction_df, 3)
    /\ LabelOf(prediction_df, 1) # LabelOf(prediction_df, 3)
    /\ id_eval.df.index = <<1, 2>>

(***************************************************************************)
(* C5                                                                      *)
(***************************************************************************)
\* Some id has rows with different ground-truth labels.
MixedLabels(df) ==
    \E i, j \in DOMAIN df.data :
        IdOf(df, i) = IdOf(df, j) /\ LabelOf(df, i) # LabelOf(df, j)

\* C5 as claimed: when an id group carries different labels, the call
\* returns no metrics.
C5_MixedLabelsAreRefused ==
    (id_col_name # "" /\ MixedLabels(prediction_df)) => outcome # "returned"

\* C5 as the code has it: when an id group carries different labels the
\* aggregation raises nothing; the group's row takes the label of the group's
\* first row, and the call ends as any other call does (it returns, or the
\* AUC of a single-class per-id table or a metadata column is refused).
C5_MixedLabelsTakeTheFirst ==
    (id_col_name # "" /\ MixedLabels(prediction_df) /\ pc = "done") =>
        /\ id_eval.df # <<>>
        /\ \A g \in DOMAIN id_eval.df.data :
               id_eval.df.data[g][label_col_name]
                   = LabelOf(prediction_df,
                             FirstRowOfId(prediction_df, id_eval.df.index[g]))
        /\ \/ outcome = "returned"
           \/ /\ outcome = "ValueError"
              /\ Cardinality(Range(Column(id_eval.df, label_col_name))) = 1
           \/ /\ outcome = "ValueError"
              /\ \E k \in DOMAIN metadata_col_names :
                     /\ metadata_col_names[1] # "all"
                     /\ \/ metadata_col_names[k] \notin Range(prediction_df.columns)
                        \/ Cardinality(Range(Column(prediction_df,
                                                     metadata_col_names[k]))) > 1

C5_Witness ==
    /\ Returned
    /\ id_col_name # ""
    /\ MixedLabels(prediction_df)
    /\ NRows = 3

(***************************************************************************)
(* C6                                                                      *)
(***************************************************************************)
\* C6: aggregating the per-id table again by the same id column succeeds and
\* returns that table: the same ids in the same order with the same scores
\* and labels.
C6_ReAggregationIsIdentity ==
    reaggregated # <<>> =>
        /\ reaggregated.err = "none"
        /\ reaggregated.val = id_eval.df

\* The per-id table stems from a table in which an id had several rows.
C6_Witness ==
    /\ reaggregated # <<>>
    /\ Len(id_eval.df.data) = 2
    /\ NRows = 3

(***************************************************************************)
(* C7                                                                      *)
(***************************************************************************)
\* The entries of compute_metrics' own frame e.metrics, which carry the tag
\* own, are in table f under the tag level with the same values.
HoldsMetricsOf(f, e, own, level) ==
    LET labels == Series(e.df, label_col_name)
        names == {<<"acc", "overall">>, <<"f1_macro", "overall">>,
                  <<"recall_micro", "overall">>, <<"confusion_matrix", "overall">>}
                 \cup {<<"f1">> \o Tokens(labels.dtype, c) : c \in Range(labels.values)}
    IN \A n \in names :
           /\ EntryCount(f, to_wide, (IF level = "" THEN <<>> ELSE <<level>>) \o n) = 1
           /\ EntryValues(f, to_wide, (IF level = "" THEN <<>> ELSE <<level>>) \o n)
                  = EntryValues(e.metrics, to_wide,
                                (IF own = "" THEN <<>> ELSE <<own>>) \o n)

\* The level tags that occur in a returned table.
LevelsIn(f) ==
    IF to_wide THEN {Head(f.columns[j]) : j \in DOMAIN f.columns} \cap {"row", "id"}
    ELSE {LevelOf(f, i) : i \in DOMAIN f.data}

NClasses(df) == Cardinality(Range(Column(df, label_col_name)))

\* Score sequences of length K > 2 with K classes among the labels of the
\* input and of the per-id table.
MulticlassAllPresent ==
    /\ ~ScalarScored(prediction_df)
    /\ Len(ScoreOf(prediction_df, 1)) > 2
    /\ NClasses(prediction_df) = Len(ScoreOf(prediction_df, 1))
    /\ NClasses(id_eval.df) = Len(ScoreOf(prediction_df, 1))

OverallTypes ==
    {"acc", "f1_macro", "f1_micro", "precision_macro", "precision_micro",
     "recall_macro", "recall_micro", "confusion_matrix"}

\* C8: such an input with an id column returns a long table of 2 * (3K + 8)
\* rows: at each level f1, precision and recall of each class and the eight
\* overall metrics, once each, and no AUC.
C8_MulticlassRowCount ==
    (Returned /\ id_col_name # "" /\ ~to_wide /\ MulticlassAllPresent) =>
        LET K == Len(ScoreOf(prediction_df, 1))
            f == performance_description
        IN /\ Len(f.data) = 2 * (3 * K + 8)
           /\ \A level \in {"row", "id"} :
                  /\ \A t \in OverallTypes :
                         EntryCount(f, FALSE, <<level, t, "overall">>) = 1
                  /\ \A c \in Range(Column(prediction_df, label_col_name)) :
                         \A t \in {"f1", "precision", "recall"} :
                             EntryCount(f, FALSE, <<level, t>> \o Tokens("str", c)) = 1
                  /\ EntryCount(f, FALSE, <<level, "auc", "overall">>) = 0

\* The tests' four-class table: 40 rows.
C8_Witness ==
    /\ Returned /\ id_col_name # "" /\ ~to_wide /\ MulticlassAllPresent
    /\ prediction_df = multiclass_df
    /\ Len(performance_description.data) = 40

(***************************************************************************)
(* C9                                                                      *)
(***************************************************************************)
LevelsComputed == IF id_col_name # "" THEN {"row", "id"} ELSE {""}

\* C9: a returned table of a binary-shaped input (scalar scores or score
\* sequences of length 2) has exactly one auc-overall entry at each computed
\* level, beside the unchanged metrics of that level; a returned table of any
\* other input has none.
C9_AucIffBinaryShaped ==
    Returned =>
        /\ row_eval.auc = BinaryInput(prediction_df)
        /\ id_col_name # "" => id_eval.auc = BinaryInput(prediction_df)
        /\ \A level \in LevelsComputed :
               EntryCount(performance_description, to_wide,
                          EntryName(level, "auc", <<"overall">>))
                   = IF BinaryInput(prediction_df) THEN 1 ELSE 0
        /\ HoldsMetricsOf(performance_description, row_eval, "", RowTag)
        /\ id_col_name # "" =>
               HoldsMetricsOf(performance_description, id_eval, "id", "id")
        /\ ~to_wide =>
               Len(performance_description.data)
                   = Len(row_eval.metrics.data)
                     + (IF id_col_name # "" THEN Len(id_eval.metrics.data) ELSE 0)
                     + (IF BinaryInput(prediction_df)
                        THEN Cardinality(LevelsComputed) ELSE 0)
        /\ to_wide =>
               Len(MetricsOnly(performance_description).columns)
                   = Len(row_eval.metrics.columns)
                     + (IF id_col_name # "" THEN Len(id_eval.metrics.columns) ELSE 0)
                     + (IF BinaryInput(prediction_df)
                        THEN Cardinality(LevelsComputed) ELSE 0)

\* Two-entry score sequences with an id column: an AUC entry at both levels.
C9_Witness ==
    /\ Returned
    /\ id_col_name # ""
    /\ ~ScalarScored(prediction_df)
    /\ EntryCount(performance_description, to_wide, <<"row", "auc", "overall">>) = 1
    /\ EntryCount(performance_description, to_wide, <<"id", "auc", "overall">>) = 1

(***************************************************************************)
(* C10                                                                     *)
(***************************************************************************)
\* The probability of the positive class and whether the row is positive,
\* read off a table's row.
ProbOf(df, i) == IF ScalarScored(df) THEN ScoreOf(df, i) ELSE ScoreOf(df, i)[2]

IsPositive(df, i) ==
    IF df.dtypes[label_col_name] = "int" THEN LabelOf(df, i) = 1
    ELSE LabelOf(df, i) = id2label[1]

PosNegPairs(df) ==
    {p \in (DOMAIN df.data) \X (DOMAIN df.data) :
        IsPositive(df, p[1]) /\ ~IsPositive(df, p[2])}

\* Twice the number of pairs ranked correctly, a tie counting one half.
TwiceRanked(df) ==
    2 * Cardinality({p \in PosNegPairs(df) : RLess(ProbOf(df, p[2]), ProbOf(df, p[1]))})
    + Cardinality({p \in PosNegPairs(df) : ProbOf(df, p[1]) = ProbOf(df, p[2])})

AucAsStated(f, level, df) ==
    LET auc == EntryValues(f, to_wide, EntryName(level, "auc", <<"overall">>))
    IN /\ auc = {Rat(TwiceRanked(df), 2 * Cardinality(PosNegPairs(df)))}
       /\ (\A p \in PosNegPairs(df) : RLess(ProbOf(df, p[2]), ProbOf(df, p[1])))
              => auc = {<<1, 1>>}
       /\ (\A i, j \in DOMAIN df.data : ProbOf(df, i) = ProbOf(df, j))
              => auc = {<<1, 2>>}

\* C10: the AUC a returned table reports at a level is the fraction of
\* (positive, negative) pairs of that level's table ranked correctly, a tie
\* counting one half: 1 when every positive row ranks above every negative
\* one, 1/2 when all rows have the same probability.
C10_AucIsRankedPairFraction ==
    (Returned /\ BinaryInput(prediction_df)) =>
        /\ AucAsStated(performance_description, RowTag, prediction_df)
        /\ id_col_name # "" => AucAsStated(performance_description, "id", id_eval.df)

\* Three rows, a tie among them, and an AUC strictly between 1/2 and 1.
C10_Witness ==
    /\ Returned
    /\ id_col_name = ""
    /\ NRows = 3
    /\ TwiceRanked(prediction_df) = 3
    /\ EntryValues(performance_description, to_wide, <<"auc", "overall">>) = {<<3, 4>>}

(***************************************************************************)
(* C11                                                                     *)
(***************************************************************************)
\* The input column c holds exactly one value.
SingleValued(c) ==
    /\ c \in Range(prediction_df.columns)
    /\ Cardinality(Range(Column(prediction_df, c))) = 1

\* The columns a call asks for: the names listed, or with "all" every input
\* column but the score and label columns.
Requested(c) ==
    IF metadata_col_names = <<>> THEN FALSE
    ELSE IF metadata_col_names[1] = "all"
    THEN c \in Range(prediction_df.columns) \ {prediction_col_name, label_col_name}
    ELSE c \in Range(metadata_col_names)

\* The metric columns and rows of table f are those of table m.
SameMetrics(f, m) ==
    /\ MetricsOnly(f).columns = m.columns
    /\ Len(f.data) = Len(m.data)
    /\ \A i \in DOMAIN m.data : \A c \in Range(m.columns) : f.data[i][c] = m.data[i][c]

\* C11: in a returned table every requested input column that holds a single
\* value v is a column whose every row holds v, the value of the input table,
\* and the metric columns and rows are those computed without metadata.
C11_MetadataBroadcast ==
    (Returned /\ metadata_col_names # <<>>) =>
        /\ \A c \in Range(prediction_df.columns) :
               (Requested(c) /\ SingleValued(c)) =>
                   /\ Cardinality(WideColumns(performance_description, <<c>>)) = 1
                   /\ \A i \in DOMAIN performance_description.data :
                          performance_description.data[i][<<c>>]
                              = prediction_df.data[1][c]
        /\ SameMetrics(performance_description,
                       metrics_of_levels(prediction_df, id_col_name, id2label,
                                         to_wide).val)

\* The tests' four-class table with model_name requested: 40 rows, each
\* holding "test", out of 8 input rows and 4 per-id rows.
C11_Witness ==
    /\ Returned
    /\ prediction_df = multiclass_df
    /\ metadata_col_names = <<"model_name">>
    /\ id_col_name = "id"
    /\ Len(performance_description.data) = 40
    /\ \A i \in DOMAIN performance_description.data :
           performance_description.data[i][<<"model_name">>] = "test"


(***************************************************************************)
(* C12                                                                     *)
(***************************************************************************)

\* The call names its metadata columns one by one.
ExplicitList == metadata_col_names # <<>> /\ metadata_col_names[1] # "all"

\* Some named column is not in the input table or holds more than one value.
SomeRequestedUnusable ==
    \E k \in DOMAIN metadata_col_names : ~SingleValued(metadata_col_names[k])

\* The row-level and id-level metrics of the call were computed.
MetricsComputed ==
    metrics_of_levels(prediction_df, id_col_name, id2label, to_wide).err = "none"

\* C12: with a list of metadata columns, a call whose metrics were computed
\* ends in a ValueError and no table when a named column is absent or holds
\* more than one value, and in a table when every named column is present and
\* single valued.
C12_ExplicitListValidated ==
    (pc = "done" /\ ExplicitList /\ MetricsComputed) =>
        IF SomeRequestedUnusable
        THEN outcome = "ValueError" /\ performance_description = <<>>
        ELSE /\ outcome = "returned"
             /\ \A k \in DOMAIN metadata_col_names :
                    Cardinality(WideColumns(performance_description,
                                            <<metadata_col_names[k]>>)) = 1

\* model_name and id are both named, model_name holds "test" and "dev": the
\* call fails although its metrics were computed.
C12_Witness ==
    /\ pc = "done"
    /\ metadata_col_names = <<"model_name", "id">>
    /\ MetricsComputed
    /\ Range(Column(prediction_df, "model_name")) = {"test", "dev"}
    /\ Cardinality(Range(Column(prediction_df, "id"))) = 1
    /\ outcome = "ValueError"
    /\ performance_description = <<>>


(***************************************************************************)
(* C13                                                                     *)
(***************************************************************************)

\* The columns of the result that are not metric columns of the call.
AttachedColumns ==
    Range(performance_description.columns)
        \ Range(metrics_of_levels(prediction_df, id_col_name, id2label,
                                  to_wide).val.columns)

\* The input columns, score and label columns set aside, that hold one value.
SingleValuedColumns ==
    {c \in Range(prediction_df.columns) \ {prediction_col_name, label_col_name} :
        SingleValued(c)}

\* C13: with "all", a call whose metrics were computed returns a table whose
\* attached columns are exactly the single-valued input columns other than the
\* score and label columns, each holding the input's value; a column with more
\* than one value is left out and raises nothing.
C13_AllKeepsSingleValued ==
    (pc = "done" /\ metadata_col_names = <<"all">> /\ MetricsComputed) =>
        /\ outcome = "returned"
        /\ AttachedColumns = {<<c>> : c \in SingleValuedColumns}
        /\ \A c \in SingleValuedColumns :
               \A i \in DOMAIN performance_description.data :
                   performance_description.data[i][<<c>>] = prediction_df.data[1][c]

\* Two rows of two ids and one model_name: model_name is attached, id is not.
C13_Witness ==
    /\ Returned
    /\ metadata_col_names = <<"all">>
    /\ Cardinality(Range(Column(prediction_df, "id"))) = 2
    /\ SingleValuedColumns = {"model_name"}
    /\ AttachedColumns = {<<"model_name">>}


(***************************************************************************)
(* C14                                                                     *)
(***************************************************************************)

\* What performance_metrics_from_df makes of the table in the file, with the
\* options of the file call.
TableCallOnFile ==
    performance_metrics_from_df(files[1].records, id_col_name, metadata_col_names,
                                id2label, to_wide)

\* The call ended as the call r of the table-based entry point ends.
EndedAs(r) ==
    IF r.err = "none"
    THEN outcome = "returned" /\ performance_description = r.val
    ELSE outcome = r.err /\ performance_description = <<>>

\* C14: a file call whose path has another suffix than .jsonl, the path given
\* as a string or as a Path, ends in a ValueError with no file read and no
\* metric computed; with the suffix .jsonl the file is read once, its table is
\* the prediction table, and the call ends as the table-based entry point
\* ends on that table with the same options.
C14_OnlyJsonlIsEvaluated ==
    entry = "file" =>
        IF path_suffix(jsonl_path.name) # "jsonl"
        THEN /\ pc \in {"from_file", "rejected"}
             /\ files_read = <<>>
             /\ prediction_df = NoTable
             /\ row_eval = NoEvaluation /\ id_eval = NoEvaluation
             /\ performance_description = <<>>
             /\ pc = "rejected" => outcome = "ValueError"
        ELSE /\ pc # "rejected"
             /\ pc # "from_file" =>
                    /\ files_read = <<Path(jsonl_path)>>
                    /\ prediction_df = files[1].records
             /\ pc = "done" => EndedAs(TableCallOnFile)

\* The call on a.csv has ended: a ValueError, nothing read, nothing computed.
C14_Witness ==
    /\ entry = "file"
    /\ jsonl_path.name = <<"a", "csv">>
    /\ pc = "rejected"
    /\ outcome = "ValueError"
    /\ files_read = <<>>
    /\ row_eval = NoEvaluation


(***************************************************************************)
(* C15                                                                     *)
(***************************************************************************)

\* What the file call makes of the k-th match, with the options of the
\* folder call.
FileCall(k) ==
    IF path_suffix(files[k].path.name) # "jsonl" THEN Raise("ValueError")
    ELSE performance_metrics_from_df(files[k].records, id_col_name, metadata_col_names,
                                     id2label, to_wide)

\* The file calls of all the matches, in the order of the matches.
FileCalls == [k \in DOMAIN files |-> FileCall(k)]

Succeed(calls) == \A k \in DOMAIN calls : calls[k].err = "none"

RECURSIVE RowsBefore(_, _)
\* The rows of the tables before the k-th.
RowsBefore(tables, k) ==
    IF k = 1 THEN 0 ELSE RowsBefore(tables, k - 1) + Len(tables[k - 1].data)

\* Table f is the tables one after the other in their order: a block of rows
\* per table, each row with its index and cells, a column the table lacks
\* being NA.
IsConcatenation(f, tables) ==
    /\ Len(f.data) = RowsBefore(tables, Len(tables) + 1)
    /\ Range(f.columns) = UNION {Range(tables[k].columns) : k \in DOMAIN tables}
    /\ \A k \in DOMAIN tables : \A i \in DOMAIN tables[k].data :
           /\ f.index[RowsBefore(tables, k) + i] = tables[k].index[i]
           /\ \A c \in Range(f.columns) :
                  f.data[RowsBefore(tables, k) + i][c]
                      = IF c \in Range(tables[k].columns)
                        THEN tables[k].data[i][c] ELSE NA

\* The folder call returned the concatenation of the tables of the file
\* calls, or failed with no table when one of them failed.
ConcatenatedOrFailed(calls) ==
    IF Succeed(calls)
    THEN /\ outcome = "returned"
         /\ IsConcatenation(performance_description,
                            [k \in DOMAIN calls |-> calls[k].val])
    ELSE outcome # "returned" /\ performance_description = <<>>

FolderDone == entry = "folder" /\ pc = "folder_done"

\* C15 as stated: the folder call returns the concatenation of the tables of
\* the file calls in the order of the matches, and fails with no table when a
\* file call fails.
C15_FolderReturnsConcatenation ==
    FolderDone => \A calls \in {FileCalls} : ConcatenatedOrFailed(calls)

\* C15, amended: as stated when a file matches; when no file matches the
\* call fails with a ValueError and no table.
C15_FolderOfMatchesReturnsConcatenation ==
    FolderDone =>
        IF files = <<>> THEN outcome = "ValueError" /\ performance_description = <<>>
        ELSE \A calls \in {FileCalls} : ConcatenatedOrFailed(calls)

\* Two files of different tables, both evaluated: the table returned has the
\* rows of the first and then the rows of the second.
C15_Witness ==
    /\ FolderDone
    /\ outcome = "returned"
    /\ Len(files) = 2
    /\ files[1].records # files[2].records
    /\ Len(dfs) = 2
    /\ dfs[1] # dfs[2]
    /\ Len(performance_description.data) = Len(dfs[1].data) + Len(dfs[2].data)
    /\ files_read = <<files[1].path, files[2].path>>


(***************************************************************************)
(* C16                                                                     *)
(***************************************************************************)

\* A label of table df that the index-to-label mapping does not hold.
AbsentLabel(df) ==
    /\ df.dtypes[label_col_name] # "int"
    /\ \E i \in DOMAIN df.data : \A k \in DOMAIN id2label : id2label[k] # LabelOf(df, i)

\* Evaluation e took the AUC path: its AUC failed for a label without an
\* entry and only then, leaving no table; an AUC it computed is the one of
\* the labels as they are when they are integers and of their indices in
\* the mapping otherwise.
LabelsNormalised(e, level) ==
    /\ e.err = "KeyError" <=> AbsentLabel(e.df)
    /\ e.err = "KeyError" =>
           /\ e.result = <<>>
           /\ pc \in {"done", "folder_done"} /\ outcome = "KeyError"
           /\ performance_description = <<>>
    /\ e.err = "none" => AucAsStated(e.result, level, e.df)

\* C16: on the AUC path integer labels are used as they are and other labels
\* by their index in the mapping; a label the mapping lacks ends the call in
\* a KeyError with no table, and no index stands in for it.
C16_LabelsMappedOrLookupError ==
    /\ row_eval.auc => LabelsNormalised(row_eval, "")
    /\ id_eval.auc => LabelsNormalised(id_eval, "id")

\* A table of two-entry scores with the label ASD, which the mapping of
\* non-TD and TD lacks: the call has ended in a KeyError although the other
\* metrics of the rows were computed.
C16_Witness ==
    /\ pc = "done"
    /\ id2label = BinaryMap
    /\ \E i \in DOMAIN prediction_df.data : LabelOf(prediction_df, i) = "ASD"
    /\ \E i \in DOMAIN prediction_df.data : LabelOf(prediction_df, i) = "TD"
    /\ row_eval.auc /\ row_eval.metrics # <<>>
    /\ row_eval.err = "KeyError"
    /\ outcome = "KeyError"
    /\ performance_description = <<>>


(***************************************************************************)
(* C17                                                                     *)
(***************************************************************************)

\* Table f holds everything the call was asked for: the metrics of the rows,
\* those of the ids when an id column is supplied, an AUC at every level of
\* a binary-shaped input, and every metadata column asked for (with "all",
\* every single-valued one).
FullyAssembled(f) ==
    /\ HoldsMetricsOf(f, row_eval, "", RowTag)
    /\ id_col_name # "" => HoldsMetricsOf(f, id_eval, "id", "id")
    /\ \A level \in LevelsComputed :
           EntryCount(f, to_wide, EntryName(level, "auc", <<"overall">>))
               = IF BinaryInput(prediction_df) THEN 1 ELSE 0
    /\ \A c \in (Range(prediction_df.columns) \cup Range(metadata_col_names)) \ {"all"} :
           (Requested(c) /\ (ExplicitList \/ SingleValued(c))) =>
               Cardinality(WideColumns(f, <<c>>)) = 1

\* C17: a call has ended either with the fully assembled table or with an
\* error and no table; until it ends nothing is returned.
C17_AllOrNothing ==
    /\ pc = "done" =>
           \/ outcome = "returned" /\ FullyAssembled(performance_description)
           \/ /\ outcome \notin {"returned", "running"}
              /\ performance_description = <<>>
    /\ pc \in {"row_level", "id_level", "finish"} => outcome = "running"

\* The metrics of the rows were computed and the evaluation of the ids then
\* failed: the call has ended in that error, with no table.
C17_Witness ==
    /\ pc = "done"
    /\ row_eval.err = "none" /\ row_eval.result # <<>>
    /\ id_eval.err = "ValueError"
    /\ outcome = "ValueError"
    /\ performance_description = <<>>


(***************************************************************************)
(* C18                                                                     *)
(***************************************************************************)

ClassNames(e) ==
    {Tokens(e.df.dtypes[label_col_name], c) : c \in Range(Column(e.df, label_col_name))}
    \cup {Tokens(e.predictions.dtype, c) : c \in Range(e.predictions.values)}

\* The columns of a long table as documented.
LongColumns ==
    {<<"class">>, <<"score_type">>, <<"value">>}
    \cup (IF id_col_name # "" THEN {<<"level">>} ELSE {})

\* Every row names a class of the input or "overall".
ClassesOfInput(f) ==
    \A i \in DOMAIN f.data :
        \/ f.data[i][<<"class">>] = <<"overall">>
        \/ f.data[i][<<"class">>] \in ClassNames(row_eval)
        \/ id_col_name # "" /\ f.data[i][<<"class">>] \in ClassNames(id_eval)

\* C19: a returned long table has, metadata columns apart, exactly the
\* columns class, score_type and value, and level when an id column is
\* supplied, for binary-shaped and other inputs alike, and every row names a
\* class of the input or "overall".
C19_LongColumnsAsDocumented ==
    (Returned /\ ~to_wide) =>
        /\ Range(MetricsOnly(performance_description).columns) = LongColumns
        /\ ClassesOfInput(performance_description)


(***************************************************************************)
(* C20                                                                     *)
(***************************************************************************)

PerClassTypes == {"f1", "precision", "recall"}

\* Column name c is [level-]score_type-class_or_overall for a level the call
\* computed: an overall score, the AUC of a binary-shaped input, or a
\* per-class score of a class of that level's table.
WellNamed(c) ==
    \/ \E t \in OverallTypes \cup {"auc"} :
           c \in {EntryName(RowTag, t, <<"overall">>)}
                 \cup (IF id_col_name # "" THEN {EntryName("id", t, <<"overall">>)} ELSE {})
    \/ \E t \in PerClassTypes :
           \/ \E cl \in ClassNames(row_eval) : c = EntryName(RowTag, t, cl)
           \/ id_col_name # "" /\ \E cl \in ClassNames(id_eval) : c = EntryName("id", t, cl)

\* C20: a returned wide table has exactly one row, with or without an id
\* column, an AUC or metadata; every metric column is named
\* [level-]score_type-class_or_overall, and no column name occurs twice.
C20_WideIsOneRowWellNamed ==
    (Returned /\ to_wide) =>
        /\ Len(performance_description.data) = 1
        /\ Len(performance_description.index) = 1
        /\ \A j \in DOMAIN MetricsOnly(performance_description).columns :
               WellNamed(MetricsOnly(performance_description).columns[j])
        /\ \A j, k \in DOMAIN performance_description.columns :
               performance_description.columns[j] = performance_description.columns[k]
                   => j = k

\* A wide table of a binary-shaped input with an id column and metadata: one
\* row holding both levels, both AUCs and the metadata column.
C20_Witness ==
    /\ Returned /\ to_wide
    /\ id_col_name = "id"
    /\ metadata_col_names = <<"model_name">>
    /\ Len(performance_description.data) = 1
    /\ Cardinality(WideColumns(performance_description, <<"row", "auc", "overall">>)) = 1
    /\ Cardinality(WideColumns(performance_description, <<"id", "auc", "overall">>)) = 1
    /\ Cardinality(WideColumns(performance_description, <<"model_name">>)) = 1


(***************************************************************************)
(* C21                                                                     *)
(***************************************************************************)

\* The call on the same table with the same options, made on its own.
SameCall ==
    performance_metrics_from_df(prediction_df, id_col_name, metadata_col_names,
                                id2label, to_wide)

IsNearest(r, n) ==
    \/ 2 * (r[1] - n * r[2]) <= r[2] /\ 0 <= r[1] - n * r[2]
    \/ 2 * (n * r[2] - r[1]) <= r[2] /\ 0 <= n * r[2] - r[1]

\* Entry k (counted from 0) of sequence v is a largest entry of v.
IsArgMax(v, k) ==
    /\ k + 1 \in DOMAIN v
    /\ \A j \in DOMAIN v : ~RLess(v[k + 1], v[j])

\* The class p predicted for row i of table df is the score rounded for a
\* scalar score and an arg-max index of a score sequence, as the label of
\* that index when a mapping is supplied.
IsPredictedClass(df, i, p) ==
    IF ScalarScored(df) THEN IsNearest(ScoreOf(df, i), p)
    ELSE IF DOMAIN id2label # {}
    THEN \E k \in DOMAIN id2label : p = id2label[k] /\ IsArgMax(ScoreOf(df, i), k)
    ELSE IsArgMax(ScoreOf(df, i), p)

\* The probability of the positive class of every row of df: the score
\* itself, or of a sequence its entry at index 1.
PositiveProbs(df) ==
    [i \in DOMAIN df.data |->
        IF ScalarScored(df) THEN ScoreOf(df, i) ELSE ScoreOf(df, i)[2]]

ScoresNormalised(e) ==
    /\ e.predictions # <<>> =>
           /\ DOMAIN e.predictions.values = DOMAIN e.df.data
           /\ e.predictions.dtype
                  = (IF ScalarScored(e.df) THEN "float"
                     ELSE IF DOMAIN id2label # {} THEN "str" ELSE "int")
           /\ \A i \in DOMAIN e.df.data :
                  IsPredictedClass(e.df, i, e.predictions.values[i])
    /\ e.auc =>
           scores_to_probs(Series(e.df, prediction_col_name)) = PositiveProbs(e.df)

\* C22: at each level the predicted class of a row is its scalar score
\* rounded, or an arg-max index of its score sequence, given as the label
\* the mapping has for that index when a mapping is supplied and as the
\* index otherwise; the probability of the positive class is the scalar
\* score itself, or the entry at index 1 of a sequence of length 2.
C22_ScoreNormalisation ==
    /\ ScoresNormalised(row_eval)
    /\ ScoresNormalised(id_eval)

\* Two-entry score sequences with labels as strings and a mapping: the
\* predicted classes are labels of the mapping, and an AUC was computed.
C22_Witness ==
    /\ Returned
    /\ ~ScalarScored(prediction_df)
    /\ BinaryInput(prediction_df)
    /\ id2label = BinaryMap
    /\ row_eval.auc
    /\ Range(row_eval.predictions.values) = {"TD", "non-TD"}


(***************************************************************************)
(* C23                                                                     *)
(***************************************************************************)

\* Row i of the table of evaluation e has a tie: a scalar score of one half,
\* or a sequence whose largest entry occurs twice.
Tied(e, i) ==
    IF ScalarScored(e.df) THEN ScoreOf(e.df, i) = <<1, 2>>
    ELSE \E j, k \in DOMAIN ScoreOf(e.df, i) :
             /\ j # k
             /\ ScoreOf(e.df, i)[j] = ScoreOf(e.df, i)[k]
             /\ IsArgMax(ScoreOf(e.df, i), j - 1)

TiesTakeTheLowest(e) ==
    e.predictions # <<>> =>
        \A i \in DOMAIN e.df.data : e.predictions.values[i] = DirectClass(e.df, i)

\* C23: at each level the predicted class of a score sequence is the lowest
\* index holding its largest entry (as its label under a mapping), so that
\* [0.5, 0.5] predicts class 0; a scalar score predicts 1 when it is above
\* 0.5 and 0 when it is 0.5 or below.
C23_TiesPredictTheLowest ==
    /\ TiesTakeTheLowest(row_eval)
    /\ TiesTakeTheLowest(id_eval)

\* A table with the sequence [0.5, 0.5] in one row and a scalar table with
\* the score 0.5 both occur; here the sequence, predicted as class 0.
C23_Witness ==
    /\ pc = "done"
    /\ ~ScalarScored(prediction_df)
    /\ id2label = NoMap
    /\ \E i \in DOMAIN row_eval.df.data :
           /\ ScoreOf(row_eval.df, i) = <<Tenths(5), Tenths(5)>>
           /\ Tied(row_eval, i)
           /\ row_eval.predictions.values[i] = 0


(***************************************************************************)
(* C24                                                                     *)
(***************************************************************************)
MicroTypes == {"precision_micro", "recall_micro", "f1_micro"}

\* In table f every computed level has one accuracy, and the three micro
\* averaged entries of the level hold the same value.
MicroIsAccuracy(f) ==
    \A level \in LevelsComputed :
        /\ EntryCount(f, to_wide, EntryName(level, "acc", <<"overall">>)) = 1
        /\ \A t \in MicroTypes :
               EntryValues(f, to_wide, EntryName(level, t, <<"overall">>))
                   = EntryValues(f, to_wide, EntryName(level, "acc", <<"overall">>))

\* The accuracy of table f at a level.
AccuracyAt(f, level) ==
    CHOOSE v \in EntryValues(f, to_wide, EntryName(level, "acc", <<"overall">>)) : TRUE

\* C24: in every table that a call on a table returns, and in the table of
\* every file of a folder, precision_micro-overall, recall_micro-overall and
\* f1_micro-overall equal acc-overall at each level.
C24_MicroEqualsAccuracy ==
    /\ (Returned /\ entry # "folder") => MicroIsAccuracy(performance_description)
    /\ \A j \in DOMAIN dfs : MicroIsAccuracy(dfs[j])

\* A returned table whose id-level accuracy is neither 0 nor 1 and where a
\* class is predicted that no id has as its label.
C24_Witness ==
    /\ Returned
    /\ entry = "df"
    /\ id_col_name # ""
    /\ AccuracyAt(performance_description, "id") \notin {Rat(0, 1), Rat(1, 1)}
    /\ Range(id_eval.predictions.values) \ Range(Series(id_eval.df, label_col_name).values) # {}


(***************************************************************************)
(* C25                                                                     *)
(***************************************************************************)
UniqueIds(df) ==
    \A i, j \in DOMAIN df.data : i # j => IdOf(df, i) # IdOf(df, j)

\* The metric entries of table f at a level, each as its name without the
\* level and its value.
EntriesAt(f, level) ==
    IF to_wide
    THEN {<<Tail(f.columns[j]), f.data[1][f.columns[j]]>> :
              j \in {k \in DOMAIN f.columns :
                        Len(f.columns[k]) > 1 /\ Head(f.columns[k]) = level}}
    ELSE {<<f.data[i][<<"score_type">>] \o f.data[i][<<"class">>], f.data[i][<<"value">>]>> :
              i \in {k \in DOMAIN f.data : LevelOf(f, k) = <<level>>}}

\* How many entries table f holds at a level.
NEntriesAt(f, level) ==
    IF to_wide
    THEN Cardinality({k \in DOMAIN f.columns :
                         Len(f.columns[k]) > 1 /\ Head(f.columns[k]) = level})
    ELSE Cardinality({k \in DOMAIN f.data : LevelOf(f, k) = <<level>>})

RowsOutOfIdOrder(df) ==
    \E i, j \in DOMAIN df.data : i < j /\ IdOf(df, i) > IdOf(df, j)

\* C25: a table returned for an input in which every id has one row holds at
\* id level the entries it holds at row level, name for name and value for
\* value, auc-overall included, in whatever order the rows are.
C25_UniqueIdsLevelsAgree ==
    (Returned /\ entry # "folder" /\ id_col_name # "" /\ UniqueIds(prediction_df)) =>
        /\ EntriesAt(performance_description, "id") = EntriesAt(performance_description, "row")
        /\ NEntriesAt(performance_description, "id") = NEntriesAt(performance_description, "row")
        /\ NEntriesAt(performance_description, "row") = Cardinality(EntriesAt(performance_description, "row"))

\* Two rows of two ids, the higher id first, with different labels and an
\* AUC at both levels.
C25_Witness ==
    /\ Returned
    /\ entry = "df"
    /\ id_col_name # ""
    /\ UniqueIds(prediction_df)
    /\ RowsOutOfIdOrder(prediction_df)
    /\ row_eval.auc /\ id_eval.auc
    /\ \E n \in {<<"auc", "overall">>} : \E v \in {Rat(0, 1), Rat(1, 1)} :
           <<n, v>> \in EntriesAt(performance_description, "id")
    /\ NEntriesAt(performance_description, "id") > 8


(***************************************************************************)
(* C26                                                                     *)
(***************************************************************************)
\* The id-level accuracy of a group whose rows come in the order p.
GroupAccuracyInOrder(p) ==
    accuracy_score([dtype |-> "int", values |-> <<group_label>>],
                   [dtype |-> "float",
                    values |-> <<float64_round(float64_mean(
                                     [i \in DOMAIN group_scores |-> group_scores[p[i]]]))>>])

\* C26: for a table of one id whose rows share their label and hold scalar
\* scores, the id-level acc-overall is the one of the same rows in any other
\* order.
C26_RowOrderIsIrrelevant ==
    fpc = "done" =>
        \A p \in Permutations(DOMAIN group_scores) : GroupAccuracyInOrder(p) = id_acc


(***************************************************************************)
(* C27                                                                     *)
(***************************************************************************)
\* C27: a folder call whose pattern matches no file reads nothing, computes
\* nothing and ends in an error with no table; every table a folder call
\* returns comes from at least one file and has rows.
C27_NoMatchIsAnError ==
    entry = "folder" =>
        /\ files = <<>> =>
               /\ outcome # "returned"
               /\ files_read = <<>> /\ dfs = <<>>
               /\ pc = "folder_done" => outcome = "ValueError" /\ performance_description = <<>>
        /\ (FolderDone /\ outcome = "returned") =>
               files # <<>> /\ Len(performance_description.data) > 0

\* The folder call of a pattern without a match has ended.
C27_Witness ==
    /\ FolderDone
    /\ files = <<>>
    /\ outcome = "ValueError"
    /\ performance_description = <<>>


(***************************************************************************)
(* C28                                                                     *)
(***************************************************************************)
\* The distinct pairs whose predictor_df is a loader of the catalogue, in order.
CataloguePairs ==
    SelectSeq(Unique(predictor_dict_list),
              LAMBDA d : d.predictor_df \in DOMAIN loader_fns_dict)

\* The proportion of NaN a pair allows in a column, in hundredths.
AllowedIn(d, col) ==
    IF col = "value" /\ d.allowed_nan_value_prop # None THEN d.allowed_nan_value_prop ELSE 0

\* The frame of pair d fails one of the four checks.
FailsACheck(d) ==
    \E df \in {loader_fns_dict[d.predictor_df]} :
        \/ Len(df.rows) = 0
        \/ \E col \in Range(required_columns) : col \notin df.columns
        \/ \E col \in Range(required_columns) \cap df.columns :
               100 * Cardinality({k \in DOMAIN df.rows : df.rows[k][col] = NaN})
                   > AllowedIn(d, col) * Len(df.rows)
        \/ Range(subset_duplicates_columns) \subseteq df.columns /\ duplicated_any(df)

\* C28: when the function has ended, the loader of every distinct pair of the
\* catalogue was called once, in order, and of no other pair; the failures
\* collected are those of the pairs whose frame fails a check, a frame without
\* a required column among them; and the function raised ValueError when
\* there is such a pair and returned when there is none.
C28_FailuresCollectedThenRaised ==
    cpc = "done" =>
        /\ loaded = [k \in DOMAIN CataloguePairs |-> CataloguePairs[k].predictor_df]
        /\ [k \in DOMAIN failure_dicts |-> failure_dicts[k].predictor_df]
               = [k \in DOMAIN SelectSeq(CataloguePairs, FailsACheck) |->
                      SelectSeq(CataloguePairs, FailsACheck)[k].predictor_df]
        /\ check_outcome = IF \E k \in DOMAIN CataloguePairs : FailsACheck(CataloguePairs[k])
                           THEN "ValueError" ELSE "returned"


(***************************************************************************)
(* C29                                                                     *)
(***************************************************************************)
\* The columns a call spares: those listed, none when the list is left out.
Spared == IF na_ignore_cols.is_none THEN {} ELSE na_ignore_cols.cols

\* C29: the call ends by returning its frame, also when na_ignore_cols is
\* left at its default; with a na_prob other than 0 and None a cell is NaN
\* exactly when the mask drew it and its column is not listed, every other
\* cell and every cell of a listed column holding the generated value; with
\* na_prob 0 or None every cell holds the generated value.
C29_OnlyUnlistedColumnsGetNA ==
    spc = "done" =>
        /\ synth_outcome = "returned"
        /\ synth_df.columns = predictors
        /\ \A col \in Range(predictors) : \A k \in 1..n_samples :
               synth_df.data[col][k] =
                   IF na_prob \notin {None, 0} /\ col \notin Spared /\ mask[col][k]
                   THEN NaN ELSE generated(col, k)

=============================================================================
